---- MODULE Spec2Model ----
(***************************************************************************)
(* Verification model of perturb (gunvirranu/perturb): the two-line        *)
(* element parser TwoLineElement::parse (src/src/common_private.h) and the *)
(* Satellite wrapper around the SGP4 propagation record                    *)
(* (src/unnamed/part_006, src/src/perturb.cpp).                            *)
(*                                                                         *)
(* Text is a sequence of one-character strings, line[i] being the C        *)
(* character line[i - 1]; the string ends after its last element, as a C   *)
(* string ends at its terminator.  Numbers read by the formatted scan are  *)
(* exact decimals (see Dec below): every field is at most twelve           *)
(* characters wide, so distinct decimals are distinct doubles and the      *)
(* comparisons against whole-number limits agree with the doubles'.        *)
(***************************************************************************)
EXTENDS Integers, Sequences, FiniteSets, TLC

VARIABLES
    tle,        \* the TwoLineElement the parser writes into
    err,        \* TLEParseError returned by the last parse call
    line_1,     \* the two lines handed to the last parse call
    line_2,
    overload,   \* which overload was called: "cstr", "string", "none"
    loc,        \* parse's local variables as they stood at its return
    calls,      \* number of parse calls made on tle so far
    sat_rec,    \* the Satellite's propagation record
    sat_state,  \* "none" before a Satellite exists, then "live"
    ret,        \* value returned by the last Satellite call
    last_op,    \* the last Satellite operation
    mins,       \* minutes from epoch of the last propagation call
    sv,         \* the caller's StateVector handed to the propagation calls
    tle_args,   \* the two line arguments of the from_tle call, if one was made
    jd,         \* a JulianDate
    other,      \* a second JulianDate, a copy of an earlier value of jd
    jd_prev,    \* jd before the last call that changed it
    delta,      \* the day offset handed to the last += or -=
    jd_ret,     \* jd - other as last computed
    jd_cmp,     \* jd < other, >, <=, >= as last computed
    jd_op,      \* the last JulianDate operation
    jd_calls,   \* number of calls that made or changed jd
    datetime,   \* the DateTime the last to_datetime returned
    objs,       \* the records of the Satellite objects, by where they are stored
    obj,        \* where the Satellite each caller calls on is stored
    sharing,    \* how the second caller's Satellite came about
    thr,        \* each caller's position in its call, its locals and results
    alone,      \* each caller's results had its calls run on a record of their own
    start       \* the record of each caller's Satellite before any call

pvars == <<tle, err, line_1, line_2, overload, loc, calls>>
svars == <<sat_rec, sat_state, ret, last_op, mins, sv, tle_args>>
jvars == <<jd, other, jd_prev, delta, jd_ret, jd_cmp, jd_op, jd_calls, datetime>>
cvars == <<objs, obj, sharing, thr, alone, start>>
vars == <<tle, err, line_1, line_2, overload, loc, calls,
          sat_rec, sat_state, ret, last_op, mins, sv, tle_args,
          jd, other, jd_prev, delta, jd_ret, jd_cmp, jd_op, jd_calls,
          datetime, objs, obj, sharing, thr, alone, start>>

(***************************************************************************)
(* Characters                                                              *)
(***************************************************************************)
\* The characters the input lines are drawn from, with their codes.  The
\* letters e, x, i, n (exponent, hexadecimal, inf, nan spellings that the
\* floating conversion would accept) are deliberately not among them.
Ascii ==
    ("\n" :> 10) @@ (" " :> 32) @@ ("*" :> 42) @@ ("+" :> 43) @@ ("-" :> 45) @@
    ("." :> 46) @@ ("0" :> 48) @@ ("1" :> 49) @@ ("2" :> 50) @@ ("3" :> 51) @@
    ("4" :> 52) @@ ("5" :> 53) @@ ("6" :> 54) @@ ("7" :> 55) @@ ("8" :> 56) @@
    ("9" :> 57) @@ ("A" :> 65) @@ ("B" :> 66) @@ ("C" :> 67) @@ ("S" :> 83) @@
    ("U" :> 85) @@ ("Z" :> 90)

DigitChars == {"0", "1", "2", "3", "4", "5", "6", "7", "8", "9"}

\* std::isdigit
isdigit(c) == c \in DigitChars

\* std::isspace, as the scan's white-space test
isspace(c) == c \in {" ", "\n"}

\* c - '0'
DigitVal(c) == Ascii[c] - 48

TLE_LINE_LEN == 69

(***************************************************************************)
(* Exact decimals: neg, mant, exp stand for (-1)^neg * 0.mant * 10^exp,    *)
(* mant a digit sequence with no leading and no trailing zero; zero is     *)
(* the empty mantissa.  wrap = 64 marks 2^64 * 10^exp(..) - value, the     *)
(* quotient of a wrapped unsigned long (only eccentricity can hold one).   *)
(***************************************************************************)
DecZero == [neg |-> FALSE, mant |-> <<>>, exp |-> 0, wrap |-> 0]

RECURSIVE StripLead(_)
StripLead(ds) ==
    IF ds # <<>> /\ Head(ds) = 0 THEN StripLead(Tail(ds)) ELSE ds

RECURSIVE StripTrail(_)
StripTrail(ds) ==
    IF ds # <<>> /\ ds[Len(ds)] = 0 THEN StripTrail(SubSeq(ds, 1, Len(ds) - 1))
    ELSE ds

\* The decimal with integer digits id and fraction digits fd.
MkDec(neg, id, fd) ==
    LET all == id \o fd
        lead == StripLead(all)
        m == StripTrail(lead)
    IN  IF m = <<>> THEN DecZero
        ELSE [neg |-> neg, mant |-> m,
              exp |-> Len(id) - (Len(all) - Len(lead)), wrap |-> 0]

\* x * 10^e
DecShift(x, e) == IF x.mant = <<>> THEN x ELSE [x EXCEPT !.exp = @ + e]

RECURSIVE DigitsToInt(_, _)
DigitsToInt(ds, acc) ==
    IF ds = <<>> THEN acc ELSE DigitsToInt(Tail(ds), 10 * acc + Head(ds))

\* The whole part of |x|, for 0 < exp <= 4.
DecWhole(x) ==
    DigitsToInt([i \in 1..x.exp |-> IF i <= Len(x.mant) THEN x.mant[i] ELSE 0], 0)

\* lo <= x, for a whole number lo in {0, 1}
DecGeq(x, lo) ==
    IF lo = 0 THEN ~x.neg
    ELSE ~x.neg /\ x.mant # <<>> /\ x.exp >= 1

\* x <= hi, for a whole number 1 <= hi < 10000
DecLeq(x, hi) ==
    \/ x.neg
    \/ x.mant = <<>>
    \/ x.exp <= 0
    \/ /\ x.exp <= 4
       /\ \/ DecWhole(x) < hi
          \/ DecWhole(x) = hi /\ Len(x.mant) <= x.exp

(***************************************************************************)
(* std::sscanf, for the conversions the two format strings use.  A scan    *)
(* state is the read position pos (index of the next unread character),    *)
(* the count n of conversions assigned, the values out assigned so far,    *)
(* the column from[field] at which each assigned conversion began          *)
(* matching, and st: "run", "fail" (matching failure) or "eof" (input      *)
(* failure).                                                               *)
(***************************************************************************)
RECURSIVE SkipWs(_, _)
SkipWs(line, p) ==
    IF p <= Len(line) /\ isspace(line[p]) THEN SkipWs(line, p + 1) ELSE p

\* First position after the run of digits that starts at p and is at most w long.
RECURSIVE DigitsEnd(_, _, _)
DigitsEnd(line, p, w) ==
    IF w > 0 /\ p <= Len(line) /\ isdigit(line[p])
    THEN DigitsEnd(line, p + 1, w - 1) ELSE p

\* The digit values of line[p .. q - 1].
DigitSeq(line, p, q) == [i \in 1..(q - p) |-> DigitVal(line[p + i - 1])]

HasSign(line, p) == p <= Len(line) /\ line[p] \in {"+", "-"}

\* The digits of an integer conversion: matching began at p, the digits
\* are line[p1 .. q - 1].
IntRun(line, p, p1, q) ==
    IF p > Len(line) THEN [st |-> "eof"]
    ELSE IF q = p1 THEN [st |-> "fail"]
    ELSE [st |-> "run", at |-> p, end |-> q,
          val |-> IF line[p] = "-" THEN 0 - DigitsToInt(DigitSeq(line, p1, q), 0)
                  ELSE DigitsToInt(DigitSeq(line, p1, q), 0)]

\* %<w>u, %<w>hhu, %<w>lu, %<w>d: white space, an optional sign that counts
\* in the width, then decimal digits.  The value of a negated unsigned
\* conversion is kept as the negative number v, standing for 2^bits + v.
ConvIntAt(line, p, w) ==
    IF HasSign(line, p) THEN IntRun(line, p, p + 1, DigitsEnd(line, p + 1, w - 1))
    ELSE IntRun(line, p, p, DigitsEnd(line, p, w))

ConvInt(line, p0, w) == ConvIntAt(line, SkipWs(line, p0), w)

\* The value of a floating conversion: matching began at p, the integer
\* digits are line[p1 .. q1 - 1] and, after a decimal point at q1 (dot),
\* the fraction digits line[q1 + 1 .. q2 - 1].
FloatVal(line, p, p1, q1, q2, dot) ==
    IF p > Len(line) THEN [st |-> "eof"]
    ELSE IF q1 = p1 /\ (~dot \/ q2 = q1 + 1) THEN [st |-> "fail"]
    ELSE [st |-> "run", at |-> p, end |-> q2,
          val |-> MkDec(line[p] = "-", DigitSeq(line, p1, q1),
                        IF dot THEN DigitSeq(line, q1 + 1, q2) ELSE <<>>)]

\* After the integer digits line[p1 .. q1 - 1], of a width of w1 in all.
FloatRun(line, p, p1, w1, q1) ==
    IF (q1 - p1) < w1 /\ q1 <= Len(line) /\ line[q1] = "."
    THEN FloatVal(line, p, p1, q1,
                  DigitsEnd(line, q1 + 1, w1 - (q1 - p1) - 1), TRUE)
    ELSE FloatVal(line, p, p1, q1, q1, FALSE)

\* %<w>lf: white space, an optional sign, digits with at most one decimal
\* point, at least one digit, all within the width.
ConvFloatAt(line, p, w) ==
    IF HasSign(line, p)
    THEN FloatRun(line, p, p + 1, w - 1, DigitsEnd(line, p + 1, w - 1))
    ELSE FloatRun(line, p, p, w, DigitsEnd(line, p, w))

ConvFloat(line, p0, w) == ConvFloatAt(line, SkipWs(line, p0), w)

\* First position after the run of non-white-space that starts at p, at most w long.
RECURSIVE WordEnd(_, _, _)
WordEnd(line, p, w) ==
    IF w > 0 /\ p <= Len(line) /\ ~isspace(line[p])
    THEN WordEnd(line, p + 1, w - 1) ELSE p

\* %<w>s: white space, then up to w characters that are not white space.
ConvStrAt(line, p, w) ==
    IF p > Len(line) THEN [st |-> "eof"]
    ELSE [st |-> "run", at |-> p, end |-> WordEnd(line, p, w),
          val |-> SubSeq(line, p, WordEnd(line, p, w) - 1)]

ConvStr(line, p0, w) == ConvStrAt(line, SkipWs(line, p0), w)

\* %1c: the next character, white space or not.
ConvChar(line, p) ==
    IF p > Len(line) THEN [st |-> "eof"]
    ELSE [st |-> "run", at |-> p, end |-> p + 1, val |-> line[p]]

Conv(line, p, d) ==
    CASE d.k \in {"u", "d"} -> ConvInt(line, p, d.w)
      [] d.k = "lf" -> ConvFloat(line, p, d.w)
      [] d.k = "s" -> ConvStr(line, p, d.w)
      [] d.k = "c" -> ConvChar(line, p)

ScanStart == [pos |-> 1, n |-> 0, st |-> "run", out |-> <<>>, from |-> <<>>]

\* The scan state after conversion d gave c: assigned, or the scan ended.
Assign(s, d, c) ==
    IF c.st # "run" THEN [s EXCEPT !.st = c.st]
    ELSE [pos |-> c.end, n |-> s.n + 1, st |-> "run",
          out |-> (d.dst :> c.val) @@ s.out,
          from |-> (d.dst :> c.at) @@ s.from]

\* One directive of a format: white space skips white space, %n stores the
\* number of characters read so far, a conversion assigns or ends the scan.
ScanStep(line, s, d) ==
    IF d.k = "ws" THEN [s EXCEPT !.pos = SkipWs(line, s.pos)]
    ELSE IF d.k = "n" THEN [s EXCEPT !.out = (d.dst :> (s.pos - 1)) @@ @]
    ELSE Assign(s, d, Conv(line, s.pos, d))

\* The directives fmt[lo .. hi] in order, from scan state s; a scan that has
\* ended stays as it is.  (The range is halved only to keep the evaluation
\* shallow: the directives still run left to right.)
RECURSIVE ScanRun(_, _, _, _, _)
ScanRun(line, fmt, lo, hi, s) ==
    IF s.st # "run" THEN s
    ELSE IF lo = hi THEN ScanStep(line, s, fmt[lo])
    ELSE ScanRun(line, fmt, ((lo + hi) \div 2) + 1, hi,
                 ScanRun(line, fmt, lo, (lo + hi) \div 2, s))

\* sscanf's results from the final scan state; ret is its return value
\* (EOF is -1).
ScanResult(s) ==
    [ret |-> IF s.st = "eof" /\ s.n = 0 THEN 0 - 1 ELSE s.n,
     out |-> s.out, from |-> s.from]

sscanf(line, fmt) == ScanResult(ScanRun(line, fmt, 1, Len(fmt), ScanStart))

WS == [k |-> "ws"]
D(k, w, dst) == [k |-> k, w |-> w, dst |-> dst]

\* "%1hhu %5s %1c %2u %3u %3s %2u %12lf %10lf %6lf %2d %6lf %2d %1hhu %4u %n %1hhu"
LINE_1_FMT_STR == <<
    D("u", 1, "line1_num"), WS, D("s", 5, "catalog_number"), WS,
    D("c", 1, "classification"), WS, D("u", 2, "launch_year"), WS,
    D("u", 3, "launch_number"), WS, D("s", 3, "launch_piece"), WS,
    D("u", 2, "epoch_year"), WS, D("lf", 12, "epoch_day_of_year"), WS,
    D("lf", 10, "n_dot"), WS, D("lf", 6, "n_ddot"), WS,
    D("d", 2, "n_ddot_exp"), WS, D("lf", 6, "b_star"), WS,
    D("d", 2, "b_star_exp"), WS, D("u", 1, "ephemeris_type"), WS,
    D("u", 4, "element_set_number"), WS, [k |-> "n", dst |-> "pre_checksum"], WS,
    D("u", 1, "checksum") >>

\* "%1hhu %5s %8lf %8lf %7lu %8lf %8lf %<mm>lf %5lu %n %1hhu"
Line2Fmt(mm) == <<
    D("u", 1, "line2_num"), WS, D("s", 5, "catlog_num_line2"), WS,
    D("lf", 8, "inclination"), WS, D("lf", 8, "raan"), WS,
    D("u", 7, "eccentricity_int"), WS, D("lf", 8, "arg_of_perigee"), WS,
    D("lf", 8, "mean_anomaly"), WS, D("lf", mm, "mean_motion"), WS,
    D("u", 5, "revolution_number"), WS, [k |-> "n", dst |-> "pre_checksum"], WS,
    D("u", 1, "checksum") >>

LINE_2_FMT_STR_NO_SPACE == Line2Fmt(11)
LINE_2_FMT_STR_WT_SPACE == Line2Fmt(10)

(***************************************************************************)
(* TwoLineElement::parse                                                   *)
(***************************************************************************)
\* TwoLineElement tle {}: every member zero, the strings empty.
\* revolution_number is an unsigned long kept as w + v, w one of "" (zero),
\* "2^64" and "2^64/10", so that a wrapped value and its tenth stay exact.
ZeroTle == [
    catalog_number |-> <<>>, classification |-> "NUL", launch_year |-> 0,
    launch_number |-> 0, launch_piece |-> <<>>, epoch_year |-> 0,
    epoch_day_of_year |-> DecZero, n_dot |-> DecZero, n_ddot |-> DecZero,
    b_star |-> DecZero, ephemeris_type |-> 0, element_set_number |-> 0,
    line_1_checksum |-> 0, inclination |-> DecZero, raan |-> DecZero,
    eccentricity |-> DecZero, arg_of_perigee |-> DecZero,
    mean_anomaly |-> DecZero, mean_motion |-> DecZero,
    revolution_number |-> [w |-> "", v |-> 0], line_2_checksum |-> 0 ]

\* An unsigned long as scanned: v, or 2^64 + v for a negated one.
ULong(v) == [w |-> IF v < 0 THEN "2^64" ELSE "", v |-> v]

\* x /= 10U on an unsigned int: 2^32 = 10 * 429496729 + 6.
Div10UInt(v) == IF v >= 0 THEN v \div 10 ELSE 429496729 + ((6 + v) \div 10)

\* x /= 10U on an unsigned long: 2^64 = 10 * (2^64 div 10) + 6.
Div10ULong(x) ==
    IF x.w = "" THEN [w |-> "", v |-> x.v \div 10]
    ELSE [w |-> "2^64/10", v |-> (6 + x.v) \div 10]

RECURSIVE IntDigits(_)
IntDigits(v) == IF v < 10 THEN <<v>> ELSE Append(IntDigits(v \div 10), v % 10)

\* static_cast<double>(eccentricity_int) / 1.0e7; for a wrapped
\* eccentricity_int, 2^64 + v, the quotient is kept as 2^64 / 1e7 less the
\* decimal of the magnitude.
EccFromInt(v) ==
    IF v >= 0 THEN DecShift(MkDec(FALSE, IntDigits(v), <<>>), 0 - 7)
    ELSE [DecShift(MkDec(FALSE, IntDigits(0 - v), <<>>), 0 - 7) EXCEPT !.wrap = 64]

\* static_cast<unsigned char>(c - '0')
CharMinusZero(c) == (Ascii[c] - 48) % 256

\* a < b on unsigned operands, a kept as above and b small
ULt(a, b) == a >= 0 /\ a < b

LINE_1_SPACES == {2, 9, 18, 33, 44, 53, 62, 64}
LINE_2_SPACES == {2, 8, 17, 26, 34, 43, 52}

\* SpacesOk with column 52 of line 2 left out of the second loop.
SpacesOk_without_52(l1, l2) ==
    /\ \A i \in LINE_1_SPACES : l1[i] = " "
    /\ \A i \in LINE_2_SPACES \ {52} : l2[i] = " "

\* The two loops over LINE_1_SPACES and LINE_2_SPACES.
SpacesOk(l1, l2) ==
    /\ \A i \in LINE_1_SPACES : l1[i] = " "
    /\ \A i \in LINE_2_SPACES : l2[i] = " "

\* ChecksumOf without the test for '-'.
ChecksumOf_digits_only(c) == IF isdigit(c) THEN DigitVal(c) ELSE 0

\* What one character adds to the checksum.
ChecksumOf(c) ==
    (IF isdigit(c) THEN DigitVal(c) ELSE 0) + (IF c = "-" THEN 1 ELSE 0)

\* The loop's sum over line[lo .. hi] (C indices lo - 1 .. hi - 1), the
\* range halved only to keep the evaluation shallow.
RECURSIVE ChecksumLoop(_, _, _)
ChecksumLoop(line, lo, hi) ==
    IF lo = hi THEN ChecksumOf(line[lo])
    ELSE LET mid == (lo + hi) \div 2
         IN  ChecksumLoop(line, lo, mid) + ChecksumLoop(line, mid + 1, hi)

calc_tle_line_checksum(line) == ChecksumLoop(line, 1, TLE_LINE_LEN - 1) % 10

\* The members of the TwoLineElement that each sscanf call writes directly.
Line1Members == {"catalog_number", "classification", "launch_year",
    "launch_number", "launch_piece", "epoch_year", "epoch_day_of_year",
    "n_dot", "n_ddot", "b_star", "ephemeris_type", "element_set_number"}
Line2Members == {"inclination", "raan", "arg_of_perigee", "mean_anomaly",
    "mean_motion"}

\* The TwoLineElement after both sscanf calls: a member is overwritten
\* exactly when its conversion was assigned.
AfterScan(t, o1, o2) ==
    [f \in DOMAIN t |->
        IF f \in Line1Members /\ f \in DOMAIN o1 THEN o1[f]
        ELSE IF f \in Line2Members /\ f \in DOMAIN o2 THEN o2[f]
        ELSE IF f = "line_1_checksum" /\ "checksum" \in DOMAIN o1 THEN o1["checksum"]
        ELSE IF f = "line_2_checksum" /\ "checksum" \in DOMAIN o2 THEN o2["checksum"]
        ELSE IF f = "revolution_number" /\ f \in DOMAIN o2 THEN ULong(o2[f])
        ELSE t[f]]

\* fix_l1_checksum and fix_l2_checksum
FixL1(r1, o1, l1) ==
    r1 = 15 /\ o1["pre_checksum"] >= TLE_LINE_LEN /\ l1[TLE_LINE_LEN - 4] = " "
FixL2(r2, o2, l2) ==
    r2 = 9 /\ o2["pre_checksum"] >= TLE_LINE_LEN /\ l2[TLE_LINE_LEN - 5] = " "

\* The special cases with the division by ten left out.
AfterFix_without_division(t, f1, f2, l1, l2) ==
    [t EXCEPT
        !.line_1_checksum = IF f1 THEN CharMinusZero(l1[TLE_LINE_LEN]) ELSE @,
        !.line_2_checksum = IF f2 THEN CharMinusZero(l2[TLE_LINE_LEN]) ELSE @]

\* The two "annoying special cases" blocks.
AfterFix(t, f1, f2, l1, l2) ==
    [t EXCEPT
        !.element_set_number = IF f1 THEN Div10UInt(@) ELSE @,
        !.line_1_checksum = IF f1 THEN CharMinusZero(l1[TLE_LINE_LEN]) ELSE @,
        !.revolution_number = IF f2 THEN Div10ULong(@) ELSE @,
        !.line_2_checksum = IF f2 THEN CharMinusZero(l2[TLE_LINE_LEN]) ELSE @]

ExpLocal_always_reduced(o1, name, l1, col) ==
    IF name \in DOMAIN o1 THEN {o1[name] - 5} ELSE {}

\* A local int after "-= 5" when the column before the mantissa holds no
\* decimal point: the empty set while the scan left it unassigned.
ExpLocal(o1, name, l1, col) ==
    IF name \in DOMAIN o1
    THEN {IF l1[col] # "." THEN o1[name] - 5 ELSE o1[name]}
    ELSE {}

\* The "Post-process" block.
PostProcess(t, nexp, bexp, ecc_int) ==
    [t EXCEPT !.n_ddot = DecShift(@, nexp), !.b_star = DecShift(@, bexp),
              !.eccentricity = EccFromInt(ecc_int)]

\* valid_vals without the strcmp of the two catalog numbers.
ValidVals_without_strcmp(t, line1_num, line2_num, nexp, bexp, cat2) ==
    /\ line1_num = 1
    /\ t.classification \in {"U", "C", "S"}
    /\ ULt(t.launch_year, 100) /\ ULt(t.epoch_year, 100)
    /\ DecGeq(t.epoch_day_of_year, 1) /\ DecLeq(t.epoch_day_of_year, 366)
    /\ 0 - 15 < nexp /\ nexp < 10
    /\ 0 - 15 < bexp /\ bexp < 10
    /\ t.ephemeris_type = 0
    /\ ULt(t.element_set_number, 10000)
    /\ line2_num = 2
    /\ DecGeq(t.inclination, 0) /\ DecLeq(t.inclination, 180)
    /\ DecGeq(t.raan, 0) /\ DecLeq(t.raan, 360)
    /\ DecGeq(t.arg_of_perigee, 0) /\ DecLeq(t.arg_of_perigee, 360)
    /\ DecGeq(t.mean_anomaly, 0) /\ DecLeq(t.mean_anomaly, 360)

\* valid_vals
ValidVals(t, line1_num, line2_num, nexp, bexp, cat2) ==
    /\ line1_num = 1
    /\ t.classification \in {"U", "C", "S"}
    /\ ULt(t.launch_year, 100) /\ ULt(t.epoch_year, 100)
    /\ DecGeq(t.epoch_day_of_year, 1) /\ DecLeq(t.epoch_day_of_year, 366)
    /\ 0 - 15 < nexp /\ nexp < 10
    /\ 0 - 15 < bexp /\ bexp < 10
    /\ t.ephemeris_type = 0
    /\ ULt(t.element_set_number, 10000)
    /\ line2_num = 2
    /\ t.catalog_number = cat2
    /\ DecGeq(t.inclination, 0) /\ DecLeq(t.inclination, 180)
    /\ DecGeq(t.raan, 0) /\ DecLeq(t.raan, 360)
    /\ DecGeq(t.arg_of_perigee, 0) /\ DecLeq(t.arg_of_perigee, 360)
    /\ DecGeq(t.mean_anomaly, 0) /\ DecLeq(t.mean_anomaly, 360)

\* checksum_matches
ChecksumMatches(t, l1, l2) ==
    /\ calc_tle_line_checksum(l1) = t.line_1_checksum
    /\ calc_tle_line_checksum(l2) = t.line_2_checksum

\* parse's locals before any is set (the return at the space check).
NoLoc == [stage |-> "spaces", l1_ret |-> 0, l2_ret |-> 0, o1 |-> <<>>,
          o2 |-> <<>>, from1 |-> <<>>, from2 |-> <<>>,
          fix_l1_checksum |-> FALSE, fix_l2_checksum |-> FALSE,
          l1_scanned |-> 0, l2_scanned |-> 0, n_ddot_exp |-> {},
          b_star_exp |-> {}]

\* parse's locals once both lines are scanned and the special cases handled.
Locals(s1, s2, f1, f2, l1) ==
    [stage |-> "format", l1_ret |-> s1.ret, l2_ret |-> s2.ret,
     o1 |-> s1.out, o2 |-> s2.out, from1 |-> s1.from, from2 |-> s2.from,
     fix_l1_checksum |-> f1, fix_l2_checksum |-> f2,
     l1_scanned |-> IF f1 THEN s1.ret + 1 ELSE s1.ret,
     l2_scanned |-> IF f2 THEN s2.ret + 1 ELSE s2.ret,
     n_ddot_exp |-> ExpLocal(s1.out, "n_ddot_exp", l1, 45),
     b_star_exp |-> ExpLocal(s1.out, "b_star_exp", l1, 54)]

\* parse from "Check that valid values were parsed" on: t3 is the
\* TwoLineElement after the post-processing, lc the locals.
parse_checks(l1, l2, t3, lc, ne, be) ==
    IF ~ValidVals(t3, lc.o1["line1_num"], lc.o2["line2_num"], ne, be,
                  lc.o2["catlog_num_line2"])
    THEN [err |-> "INVALID_VALUE", tle |-> t3,
          loc |-> [lc EXCEPT !.stage = "values"]]
    ELSE IF ~ChecksumMatches(t3, l1, l2)
    THEN [err |-> "CHECKSUM_MISMATCH", tle |-> t3,
          loc |-> [lc EXCEPT !.stage = "checksum"]]
    ELSE [err |-> "NONE", tle |-> t3, loc |-> [lc EXCEPT !.stage = "checksum"]]

\* parse from "Check that the correct number of values were parsed" on.
parse_count(l1, l2, t2, lc) ==
    IF lc.l1_scanned # 16 \/ lc.l2_scanned # 10
    THEN [err |-> "INVALID_FORMAT", tle |-> t2, loc |-> lc]
    ELSE parse_checks(l1, l2,
             PostProcess(t2, CHOOSE e \in lc.n_ddot_exp : TRUE,
                         CHOOSE e \in lc.b_star_exp : TRUE,
                         lc.o2["eccentricity_int"]),
             lc, CHOOSE e \in lc.n_ddot_exp : TRUE,
             CHOOSE e \in lc.b_star_exp : TRUE)

\* parse from "Handle some annoying special cases" on: t1 is the
\* TwoLineElement after the two scans s1 and s2.
parse_fix(l1, l2, s1, s2, t1, f1, f2) ==
    parse_count(l1, l2, AfterFix(t1, f1, f2, l1, l2), Locals(s1, s2, f1, f2, l1))

\* parse once both lines are scanned.
parse_scanned(t, l1, l2, s1, s2) ==
    parse_fix(l1, l2, s1, s2, AfterScan(t, s1.out, s2.out),
              FixL1(s1.ret, s1.out, l1), FixL2(s2.ret, s2.out, l2))

\* TwoLineElement::parse(const char *, const char *) on the TwoLineElement
\* t: the error returned, the TwoLineElement left behind, and the locals.
\* Both lines hold at least TLE_LINE_LEN characters, the columns the
\* function reads whatever the text.
parse(t, l1, l2) ==
    IF ~SpacesOk(l1, l2)
    THEN [err |-> "SHOULD_BE_SPACE", tle |-> t, loc |-> NoLoc]
    ELSE parse_scanned(t, l1, l2, sscanf(l1, LINE_1_FMT_STR),
             sscanf(l2, IF l2[53] # " " THEN LINE_2_FMT_STR_NO_SPACE
                        ELSE LINE_2_FMT_STR_WT_SPACE))

\* TwoLineElement::parse(const std::string &, const std::string &)
parse_string(t, l1, l2) ==
    IF Len(l1) < TLE_LINE_LEN \/ Len(l2) < TLE_LINE_LEN
    THEN [err |-> "INVALID_FORMAT", tle |-> t,
          loc |-> [NoLoc EXCEPT !.stage = "length"]]
    ELSE parse(t, l1, l2)

(***************************************************************************)
(* Input lines.  The two element sets of test_tle_parse and lines made     *)
(* from them by overwriting columns; where a change moves the digit sum    *)
(* the checksum digit of column 69 is rewritten to match, so that each     *)
(* case exercises the check it is named for.                               *)
(***************************************************************************)
ISS_LINE_1 == <<
    "1", " ", "2", "5", "5", "4", "4", "U", " ", "9", "8", "0", "6", "7",
    "A", " ", " ", " ", "2", "2", "0", "7", "1", ".", "7", "8", "0", "3",
    "2", "4", "0", "7", " ", " ", ".", "0", "0", "0", "2", "1", "3", "9",
    "5", " ", " ", "0", "0", "0", "0", "0", "-", "0", " ", " ", "3", "9",
    "0", "0", "8", "-", "3", " ", "0", " ", " ", "9", "9", "9", "6" >>

ISS_LINE_2 == <<
    "2", " ", "2", "5", "5", "4", "4", " ", " ", "5", "1", ".", "6", "4",
    "2", "4", " ", " ", "9", "4", ".", "0", "3", "7", "0", " ", "0", "0",
    "0", "4", "0", "4", "7", " ", "2", "5", "6", ".", "5", "1", "0", "3",
    " ", " ", "8", "9", ".", "8", "8", "4", "6", " ", "1", "5", ".", "4",
    "9", "3", "8", "6", "3", "8", "3", "3", "3", "0", "2", "2", "7" >>

TLE_2_LINE_1 == <<
    "1", " ", "2", "5", "5", "4", "4", "U", " ", "9", "8", "0", "6", "7",
    " ", "B", "A", " ", "2", "2", "0", "7", "1", ".", "7", "8", "0", "3",
    "2", "4", "0", "7", " ", " ", ".", "0", "0", "0", "2", "1", "3", "9",
    "5", " ", ".", "0", "0", "0", "0", "0", "-", "0", " ", ".", "3", "9",
    "0", "0", "8", "-", "3", " ", "0", " ", "3", "9", "9", "9", "9" >>

TLE_2_LINE_2 == <<
    "2", " ", "2", "5", "5", "4", "4", " ", " ", "5", "1", ".", "6", "4",
    "2", "4", " ", " ", "9", "4", ".", "0", "3", "7", "0", " ", "0", "0",
    "0", "4", "0", "4", "7", " ", "2", "5", "6", ".", "5", "1", "0", "3",
    " ", " ", "8", "9", ".", "8", "8", "4", "6", " ", " ", "5", ".", "4",
    "9", "3", "8", "6", "3", "8", "3", " ", "3", "0", "2", "2", "3" >>

\* line with chars written over it from column col on.
Put(line, col, chars) ==
    SubSeq(line, 1, col - 1) \o chars \o SubSeq(line, col + Len(chars), Len(line))

\* The first n characters of line: a line that is too short.
Cut(line, n) == SubSeq(line, 1, n)

Line1Cases == <<
    \* column 2 is not a space
    Put(ISS_LINE_1, 2, <<"*">>),
    Put(ISS_LINE_1, 9, <<"*">>),
    Put(ISS_LINE_1, 18, <<"*">>),
    Put(ISS_LINE_1, 33, <<"*">>),
    Put(ISS_LINE_1, 44, <<"*">>),
    Put(ISS_LINE_1, 53, <<"*">>),
    Put(ISS_LINE_1, 62, <<"*">>),
    Put(ISS_LINE_1, 64, <<"*">>),
    \* column 9 is not a space and the checksum digit is wrong
    Put(Put(ISS_LINE_1, 9, <<"*">>), 69, <<"0">>),
    \* wrong checksum digit
    Put(ISS_LINE_1, 69, <<"0">>),
    \* non-numeric character in the epoch
    Put(ISS_LINE_1, 27, <<"*">>),
    \* column 69 blank, and column 69 a letter
    Put(ISS_LINE_1, 69, <<" ">>),
    Put(ISS_LINE_1, 69, <<"A">>),
    \* blank international designator
    Put(Put(Put(ISS_LINE_1, 10, <<" ", " ", " ", " ", " ", " ", " ", " ">>), 19, <<"2", "2", "0", "7", "1", ".", "7", "8", "0", "3", "0", "1", "0", "7">>), 69, <<"1">>),
    \* classification
    Put(ISS_LINE_1, 8, <<"A">>),
    Put(ISS_LINE_1, 8, <<"C">>),
    \* epoch day of year below, at and above its limits
    Put(Put(ISS_LINE_1, 21, <<"0", "0", "0", ".", "9", "9", "9", "9", "9", "9", "9", "9">>), 69, <<"9">>),
    Put(Put(ISS_LINE_1, 21, <<"3", "6", "6", ".", "0", "0", "0", "0", "0", "0", "0", "0">>), 69, <<"2">>),
    Put(Put(ISS_LINE_1, 21, <<"3", "6", "6", ".", "0", "0", "0", "0", "0", "0", "0", "1">>), 69, <<"3">>),
    \* ephemeris type, line number, catalog number
    Put(Put(ISS_LINE_1, 63, <<"1">>), 69, <<"7">>),
    Put(Put(ISS_LINE_1, 1, <<"2">>), 69, <<"7">>),
    Put(Put(ISS_LINE_1, 3, <<"2", "5", "5", "4", "5">>), 69, <<"7">>),
    \* exponents and signs
    Put(Put(ISS_LINE_1, 45, <<"-", "1", "2", "3", "4", "5", "-", "9">>), 69, <<"1">>),
    Put(Put(ISS_LINE_1, 45, <<" ", "1", "2", "3", "4", " ", "1", "5">>), 69, <<"1">>),
    Put(ISS_LINE_1, 54, <<"-", "3", "9", "0", "0", "8", "+", "3">>),
    Put(Put(ISS_LINE_1, 34, <<"-", ".", "0", "0", "0", "2", "1", "3", "9", "5">>), 69, <<"7">>),
    Put(Put(ISS_LINE_1, 10, <<"-", "1">>), 69, <<"1">>),
    \* element set number of four digits, of one digit
    Put(Put(ISS_LINE_1, 65, <<"1", "2", "3", "4">>), 69, <<"9">>),
    Put(Put(ISS_LINE_1, 65, <<" ", " ", " ", "9">>), 69, <<"8">>),
    \* ephemeris type blank, the digits after it moved right
    Put(Put(ISS_LINE_1, 62, <<" ", " ", " ", "9", "9", "9", "9">>), 69, <<"5">>),
    Put(Put(ISS_LINE_1, 62, <<" ", " ", " ", " ", " ", "9", "9">>), 69, <<"7">>) >>

Line2Cases == <<
    \* column 2 is not a space
    Put(ISS_LINE_2, 2, <<"*">>),
    Put(ISS_LINE_2, 8, <<"*">>),
    Put(ISS_LINE_2, 17, <<"*">>),
    Put(ISS_LINE_2, 26, <<"*">>),
    Put(ISS_LINE_2, 34, <<"*">>),
    Put(ISS_LINE_2, 43, <<"*">>),
    Put(ISS_LINE_2, 52, <<"*">>),
    \* wrong checksum digit
    Put(ISS_LINE_2, 69, <<"0">>),
    \* non-numeric character in the mean motion
    Put(ISS_LINE_2, 59, <<"*">>),
    \* column 69 blank
    Put(TLE_2_LINE_2, 69, <<" ">>),
    \* angles at and beyond their limits
    Put(Put(ISS_LINE_2, 9, <<"1", "8", "0", ".", "0", "0", "0", "0">>), 69, <<"4">>),
    Put(Put(ISS_LINE_2, 9, <<"1", "8", "0", ".", "0", "0", "0", "1">>), 69, <<"5">>),
    Put(Put(ISS_LINE_2, 9, <<"-", "5", "1", ".", "6", "4", "2", "4">>), 69, <<"8">>),
    Put(Put(ISS_LINE_2, 18, <<"3", "6", "0", ".", "0", "0", "0", "0">>), 69, <<"3">>),
    Put(Put(ISS_LINE_2, 18, <<"3", "6", "0", ".", "0", "0", "0", "1">>), 69, <<"4">>),
    Put(Put(ISS_LINE_2, 35, <<"3", "6", "0", ".", "0", "0", "0", "1">>), 69, <<"5">>),
    Put(Put(ISS_LINE_2, 44, <<" ", "-", "0", ".", "0", "0", "0", "1">>), 69, <<"6">>),
    Put(Put(ISS_LINE_2, 44, <<"3", "6", "0", ".", "0", "0", "0", "1">>), 69, <<"4">>),
    \* line number, eccentricity, revolution number
    Put(Put(ISS_LINE_2, 1, <<"1">>), 69, <<"6">>),
    Put(Put(ISS_LINE_2, 27, <<"-", "0", "0", "4", "0", "4", "7">>), 69, <<"8">>),
    Put(ISS_LINE_2, 27, <<" ", " ", " ", "4", "0", "4", "7">>),
    Put(Put(TLE_2_LINE_2, 64, <<" ", " ", " ", " ", "9">>), 69, <<"5">>),
    \* mean motion zero, and negative; the checksum digit is the same
    Put(ISS_LINE_2, 53, <<"0", "0", ".", "0", "0", "0", "0", "0", "0", "0", "0">>),
    Put(ISS_LINE_2, 53, <<"-">>) >>

PairCases == <<
    <<ISS_LINE_1, ISS_LINE_2>>,
    <<TLE_2_LINE_1, TLE_2_LINE_2>>,
    \* a missing space and a wrong checksum digit on both lines
    <<Put(Put(ISS_LINE_1, 9, <<"*">>), 69, <<"0">>),
      Put(Put(ISS_LINE_2, 8, <<"*">>), 69, <<"0">>)>>,
    \* both lines end in a number without leading zeroes
    <<Put(ISS_LINE_1, 65, <<" ", " ", "1", "2", "2">>), TLE_2_LINE_2>>,
    \* both lines carry text after column 69
    <<ISS_LINE_1 \o <<"\n">>, ISS_LINE_2 \o <<"\n">>>>,
    \* digits directly after column 69 of both lines
    <<ISS_LINE_1 \o <<"6">>, ISS_LINE_2 \o <<"9">>>> >>

\* Lines of fewer than TLE_LINE_LEN characters, for the std::string overload.
ShortCases == <<
    <<Cut(ISS_LINE_1, 68), ISS_LINE_2>>,
    <<Put(ISS_LINE_1, 9, <<"*">>), Cut(ISS_LINE_2, 68)>>,
    <<Put(ISS_LINE_1, 69, <<"0">>), <<>>>> >>

\* The line pairs handed to the const char * overload.
Inputs ==
    PairCases
    \o [i \in 1..Len(Line1Cases) |-> <<Line1Cases[i], ISS_LINE_2>>]
    \o [i \in 1..Len(Line2Cases) |-> <<ISS_LINE_1, Line2Cases[i]>>]

\* The line pairs handed to the std::string overload, which only adds the
\* length test: the short lines, and one pair for each outcome of parse.
StringInputs ==
    ShortCases \o PairCases
    \o << <<Put(ISS_LINE_1, 27, <<"*">>), ISS_LINE_2>>,
          <<Put(ISS_LINE_1, 8, <<"A">>), ISS_LINE_2>>,
          <<ISS_LINE_1, Put(ISS_LINE_2, 69, <<"0">>)>>,
          <<ISS_LINE_1, Put(ISS_LINE_2, 52, <<"*">>)>> >>

(***************************************************************************)
(* The Satellite wrapper (src/unnamed/part_006).  The record holds the     *)
(* latched error code, the initialization flag, the epoch and the element  *)
(* set it was initialized from.  Times are whole minutes; a date is the    *)
(* count of minutes it stands for.  An element set is described by what    *)
(* the initializer and the propagator find in it: which of the             *)
(* initializer's degeneracy conditions its elements meet, and the          *)
(* condition, if any, the propagator detects at each elapsed time.         *)
(***************************************************************************)
MaxMinutes == 1

Times == 0..MaxMinutes

MINS_PER_DAY == 1440

\* enum class Sgp4Error : int, in definition order from NONE = 0.
Sgp4Error ==
    << "NONE", "MEAN_ELEMENTS", "MEAN_MOTION", "PERT_ELEMENTS",
       "SEMI_LATUS_RECTUM", "EPOCH_ELEMENTS_SUB_ORBITAL", "DECAYED",
       "INVALID_TLE", "UNKNOWN" >>

\* static_cast<int>(Sgp4Error::name)
ErrorCode(name) == CHOOSE c \in 0..(Len(Sgp4Error) - 1) : Sgp4Error[c + 1] = name

convert_sgp4_error_code_negative_as_none(error_code) ==
    IF error_code >= ErrorCode("UNKNOWN") THEN "UNKNOWN"
    ELSE IF error_code < 0 THEN "NONE"
    ELSE Sgp4Error[error_code + 1]

convert_sgp4_error_code(error_code) ==
    IF error_code < 0 \/ error_code >= ErrorCode("UNKNOWN")
    THEN "UNKNOWN"
    ELSE Sgp4Error[error_code + 1]

\* The conditions of the initializer, in the order it reports them.
InitConditions ==
    << "MEAN_ELEMENTS", "MEAN_MOTION", "PERT_ELEMENTS", "SEMI_LATUS_RECTUM" >>

\* The degeneracies one propagation call looks for: the eccentricity
\* outside [0, 1), the semi-latus-rectum not positive, the radius below the
\* Earth's equatorial radius.
PropConditions == {"ECCENTRICITY", "SEMI_LATUS_RECTUM", "RADIUS"}

\* The code a propagation call latches for a degeneracy.
PropCode(condition) ==
    CASE condition = "ECCENTRICITY" -> ErrorCode("EPOCH_ELEMENTS_SUB_ORBITAL")
      [] condition = "SEMI_LATUS_RECTUM" -> ErrorCode("SEMI_LATUS_RECTUM")
      [] condition = "RADIUS" -> ErrorCode("DECAYED")

\* What one propagation call can detect; 0 when it detects nothing.
PropCodes == {0} \cup {PropCode(c) : c \in PropConditions}

\* An orbit degenerates from some elapsed time on: prop[t] is the set of
\* degeneracies the perturbed elements show at elapsed time t.
ElementSets ==
    {[epoch |-> ep, init |-> held,
      prop |-> [t \in Times |-> IF t >= onset THEN degen ELSE {}]] :
        ep \in {0, MINS_PER_DAY},
        held \in SUBSET {InitConditions[i] : i \in 1..Len(InitConditions)},
        degen \in SUBSET PropConditions,
        onset \in Times}

ZeroElements == [epoch |-> 0, init |-> {}, prop |-> [t \in Times |-> {}]]

\* sgp4::elsetrec sat_rec {}: the record zeroed.
ZeroRec ==
    [error |-> 0, init |-> FALSE, jdsatepoch |-> 0, els |-> ZeroElements]

\* The code the initializer latches for the conditions in held: the first
\* of InitConditions among them, from position i on; 0 when none is left.
RECURSIVE InitCode(_, _)
InitCode(held, i) ==
    IF i > Len(InitConditions) THEN 0
    ELSE IF InitConditions[i] \in held THEN ErrorCode(InitConditions[i])
    ELSE InitCode(held, i + 1)

\* sgp4::sgp4init: populates the record, marks it initialized and latches
\* the code of the first degeneracy condition the elements meet.
sgp4init(rec, e) ==
    [rec EXCEPT !.els = e,
                !.init = TRUE,
                !.error = IF InitCode(e.init, 1) # 0 THEN InitCode(e.init, 1) ELSE @]

\* Whether a call that detects code writes the position and velocity: it
\* does when it detects nothing and when the object has decayed; for the
\* other degeneracies nothing says whether it gets that far.
Writes(code) ==
    IF code \in {0, ErrorCode("DECAYED")} THEN {TRUE} ELSE {TRUE, FALSE}

\* The outcomes of the checks for the degeneracies in degen: the code of one
\* of them, 0 when there is none, and whether r and v are written.
Outcomes(degen) ==
    {[code |-> c, writes |-> w] :
        c \in IF degen = {} THEN {0} ELSE {PropCode(d) : d \in degen},
        w \in BOOLEAN} \cap
    {o \in [code : PropCodes, writes : BOOLEAN] : o.writes \in Writes(o.code)}

\* The outcomes of the propagator's degeneracy checks at tsince.  On a record
\* that was never initialized nothing fixes which of them, if any, fires.
Fired(rec, tsince) ==
    IF rec.init THEN Outcomes(rec.els.prop[tsince])
    ELSE UNION {Outcomes(degen) : degen \in SUBSET PropConditions}

\* sgp4::sgp4: a condition that fires is latched into the record; when none
\* fires the code already latched stays.
sgp4(rec, tsince, fired) ==
    [rec EXCEPT !.error = IF fired.code # 0 THEN fired.code ELSE @]

\* sgp4::twoline2rv: reads the elements e off the two lines, whatever the
\* text holds, and initializes the record with them.  It is the base
\* implementation's reader: INVALID_TLE is not among the codes it latches.
twoline2rv(l1, l2, e, rec) ==
    sgp4init([rec EXCEPT !.jdsatepoch = e.epoch], e)

\* Satellite::Satellite(const sgp4::elsetrec)
Satellite_rec(rec) == rec

Satellite_tle_without_init(e) ==
    [ZeroRec EXCEPT !.els = e, !.error = 0, !.jdsatepoch = e.epoch]

\* Satellite::Satellite(const TwoLineElement &, GravModel)
Satellite_tle(e) ==
    sgp4init([ZeroRec EXCEPT !.els = e, !.error = 0, !.jdsatepoch = e.epoch], e)

NullPtr == [null |-> TRUE, str |-> <<>>]

Ptr(str) == [null |-> FALSE, str |-> str]

from_tle_line_1_only(p1, p2, e) ==
    IF p1.null \/ Len(p1.str) < TLE_LINE_LEN
    THEN Satellite_rec([ZeroRec EXCEPT !.error = ErrorCode("INVALID_TLE")])
    ELSE Satellite_rec(twoline2rv(p1.str, p2.str, e, ZeroRec))

\* Satellite::from_tle(char *, char *, GravModel)
from_tle(p1, p2, e) ==
    IF \/ p1.null \/ p2.null
       \/ Len(p1.str) < TLE_LINE_LEN
       \/ Len(p2.str) < TLE_LINE_LEN
    THEN Satellite_rec([ZeroRec EXCEPT !.error = ErrorCode("INVALID_TLE")])
    ELSE Satellite_rec(twoline2rv(p1.str, p2.str, e, ZeroRec))

\* Satellite::from_tle(std::string &, std::string &, GravModel)
from_tle_string(s1, s2, e) ==
    IF Len(s1) < TLE_LINE_LEN \/ Len(s2) < TLE_LINE_LEN
    THEN from_tle(NullPtr, NullPtr, e)
    ELSE from_tle(Ptr(s1), Ptr(s2), e)

\* Satellite::last_error
last_error(rec) == convert_sgp4_error_code(rec.error)

\* Satellite::epoch
epoch(rec) == rec.jdsatepoch

\* The caller's StateVector before any call wrote to it.
NoStateVector == [epoch |-> 0, written |-> FALSE]

propagate_from_epoch_stale(rec, mins_from_epoch, fired) ==
    [rec |-> sgp4(rec, mins_from_epoch, fired),
     ret |-> last_error(rec),
     sv  |-> [epoch |-> epoch(rec) + mins_from_epoch, written |-> fired.writes]]

propagate_from_epoch_on_success(rec, mins_from_epoch, fired) ==
    [rec |-> sgp4(rec, mins_from_epoch, fired),
     ret |-> last_error(sgp4(rec, mins_from_epoch, fired)),
     sv  |-> [epoch |-> epoch(rec) + mins_from_epoch,
              written |-> fired.writes /\ fired.code = 0]]

propagate_from_epoch_moving_epoch(rec, mins_from_epoch, fired) ==
    [rec |-> [sgp4(rec, mins_from_epoch, fired)
                 EXCEPT !.jdsatepoch = epoch(rec) + mins_from_epoch],
     ret |-> last_error(sgp4(rec, mins_from_epoch, fired)),
     sv  |-> [epoch |-> epoch(rec) + mins_from_epoch, written |-> fired.writes]]

\* Satellite::propagate_from_epoch: sv.epoch is set, sgp4 is handed the
\* record and sv's position and velocity arrays, and the latched code is
\* returned.  written tells whether this call wrote the two arrays.
propagate_from_epoch(rec, mins_from_epoch, fired) ==
    [rec |-> sgp4(rec, mins_from_epoch, fired),
     ret |-> last_error(sgp4(rec, mins_from_epoch, fired)),
     sv  |-> [epoch |-> epoch(rec) + mins_from_epoch, written |-> fired.writes]]

propagate_resetting(rec, at, fired) ==
    propagate_from_epoch([rec EXCEPT !.error = 0], at - epoch(rec), fired)

propagate_returning_earlier_error(rec, at, fired) ==
    [propagate_from_epoch(rec, at - epoch(rec), fired)
        EXCEPT !.sv.epoch = at, !.ret = last_error(rec)]

\* Satellite::propagate, at being the date asked for
propagate(rec, at, fired) ==
    [propagate_from_epoch(rec, at - epoch(rec), fired) EXCEPT !.sv.epoch = at]

(***************************************************************************)
(* JulianDate (src/unnamed/part_006).  A double counting days is kept as   *)
(* [t, e]: t quarter days plus e times 5e-13 days, e standing for amounts  *)
(* around the 1e-12 tolerance of normalize.  The dates of the model lie    *)
(* where doubles hold such sums exactly, so the arithmetic is exact.       *)
(***************************************************************************)
HALF_DAY == 2

ONE_DAY == 2 * HALF_DAY

\* 1e-12 days, in units of 5e-13 days
TOLERANCE == 2

Num(t, e) == [t |-> t, e |-> e]

NumZero == Num(0, 0)

NumAdd(x, y) == Num(x.t + y.t, x.e + y.e)

NumNeg(x) == Num(0 - x.t, 0 - x.e)

NumSub(x, y) == NumAdd(x, NumNeg(y))

\* x < y
NumLt(x, y) == x.t < y.t \/ (x.t = y.t /\ x.e < y.e)

\* x <= y
NumLeq(x, y) == ~NumLt(y, x)

\* std::abs
NumAbs(x) == IF NumLt(x, NumZero) THEN NumNeg(x) ELSE x

\* std::floor: the whole days at or below x.
NumFloor(x) ==
    IF x.t % ONE_DAY = 0 /\ x.e < 0
    THEN Num(x.t - ONE_DAY, 0)
    ELSE Num(x.t - (x.t % ONE_DAY), 0)

\* JulianDate::JulianDate()
JulianDate0 == [jd |-> NumZero, jd_frac |-> NumZero]

\* JulianDate::JulianDate(double _jd)
JulianDate1(_jd) == [jd |-> _jd, jd_frac |-> NumZero]

\* JulianDate::JulianDate(double _jd, double _jd_frac)
JulianDate2(_jd, _jd_frac) == [jd |-> _jd, jd_frac |-> _jd_frac]

\* normalize, first block: const double frac_days = jd - std::floor(jd) - 0.5
frac_days(d) == NumSub(NumSub(d.jd, NumFloor(d.jd)), Num(HALF_DAY, 0))

MoveFraction_dropping(d) ==
    IF NumLt(Num(0, TOLERANCE), NumAbs(frac_days(d)))
    THEN [jd |-> NumSub(d.jd, frac_days(d)), jd_frac |-> d.jd_frac]
    ELSE d

\* normalize, first block: fractional days of jd go to jd_frac.
MoveFraction(d) ==
    IF NumLt(Num(0, TOLERANCE), NumAbs(frac_days(d)))
    THEN [jd |-> NumSub(d.jd, frac_days(d)),
          jd_frac |-> NumAdd(d.jd_frac, frac_days(d))]
    ELSE d

MoveWholeDays_keeping_remainder(d) ==
    IF NumLeq(Num(ONE_DAY, 0), NumAbs(d.jd_frac))
    THEN [jd |-> NumAdd(d.jd, NumFloor(d.jd_frac)),
          jd_frac |-> NumSub(d.jd_frac, Num(ONE_DAY, 0))]
    ELSE d

\* normalize, second block: whole days of jd_frac go to jd.
MoveWholeDays(d) ==
    IF NumLeq(Num(ONE_DAY, 0), NumAbs(d.jd_frac))
    THEN [jd |-> NumAdd(d.jd, NumFloor(d.jd_frac)),
          jd_frac |-> NumSub(d.jd_frac, NumFloor(d.jd_frac))]
    ELSE d

\* JulianDate::normalize
normalize(d) == MoveWholeDays(MoveFraction(d))

\* JulianDate::normalized
normalized(d) == normalize(d)

Minus_fine_swapped(a, rhs) ==
    NumAdd(NumSub(a.jd, rhs.jd), NumSub(rhs.jd_frac, a.jd_frac))

\* JulianDate::operator-(const JulianDate &)
Minus(a, rhs) == NumAdd(NumSub(a.jd, rhs.jd), NumSub(a.jd_frac, rhs.jd_frac))

Plus_normalizing(d, delta_jd) ==
    normalized(JulianDate2(d.jd, NumAdd(d.jd_frac, delta_jd)))

\* JulianDate::operator+(const double &)
Plus(d, delta_jd) == JulianDate2(d.jd, NumAdd(d.jd_frac, delta_jd))

\* JulianDate::operator+=
PlusAssign(d, delta_jd) == Plus(d, delta_jd)

\* JulianDate::operator-(const double &)
MinusDays(d, delta_jd) == Plus(d, NumNeg(delta_jd))

\* JulianDate::operator-=
MinusAssign(d, delta_jd) == MinusDays(d, delta_jd)

\* JulianDate::operator<, >, <=, >=
Less(a, rhs) == NumLt(Minus(a, rhs), NumZero)

Greater(a, rhs) == NumLt(NumZero, Minus(a, rhs))

LessEq_strict(a, rhs) == NumLt(Minus(a, rhs), NumZero)

LessEq(a, rhs) == NumLeq(Minus(a, rhs), NumZero)

GreaterEq(a, rhs) == NumLeq(NumZero, Minus(a, rhs))


(***************************************************************************)
(* The calendar conversions of the propagator library, which JulianDate    *)
(* hands over to.  A DateTime is year, month, day, hour, min and sec; sec  *)
(* is whole seconds s and an amount e in the small unit of Num.  Times of  *)
(* day are quarter days off by small amounts, as the fine components are.  *)
(***************************************************************************)
DateTime0 == [year |-> 0, month |-> 0, day |-> 0, hour |-> 0, min |-> 0,
              sec |-> [s |-> 0, e |-> 0]]

SECS_PER_TICK == 86400 \div ONE_DAY

\* jd, jdFrac of jday_SGP4
jday_SGP4(year, mon, day, hr, minute, sec) ==
    LET whole == 367 * year - ((7 * (year + ((mon + 9) \div 12))) \div 4)
                     + ((275 * mon) \div 9) + day + 1721013
        secs == sec.s + minute * 60 + hr * 3600
        d == [jd |-> Num(whole * ONE_DAY + HALF_DAY, 0),
              jd_frac |-> Num(secs \div SECS_PER_TICK, sec.e)]
    IN  IF NumLt(Num(ONE_DAY, 0), NumAbs(d.jd_frac))
        THEN [jd |-> NumAdd(d.jd, NumFloor(d.jd_frac)),
              jd_frac |-> NumSub(d.jd_frac, NumFloor(d.jd_frac))]
        ELSE d

lmonth(i, year) ==
    IF i = 2 THEN (IF year % 4 = 0 THEN 29 ELSE 28)
    ELSE IF i \in {4, 6, 9, 11} THEN 30 ELSE 31

\* The loop of days2mdhms_SGP4: the month i that day dayofyr of the year
\* falls in, and the days inttemp before that month.
RECURSIVE MonthOf(_, _, _, _)
MonthOf(year, dayofyr, i, inttemp) ==
    IF dayofyr > inttemp + lmonth(i, year) /\ i < 12
    THEN MonthOf(year, dayofyr, i + 1, inttemp + lmonth(i, year))
    ELSE [mon |-> i, inttemp |-> inttemp]

\* days2mdhms_SGP4: days is the day of the year with its fraction.
days2mdhms_SGP4(year, days) ==
    LET dayofyr == NumFloor(days).t \div ONE_DAY
        m == MonthOf(year, dayofyr, 1, 0)
        rest == NumSub(days, NumFloor(days))
        \* the whole seconds below the fraction of the day
        below == IF rest.e < 0 THEN rest.t * SECS_PER_TICK - 1
                               ELSE rest.t * SECS_PER_TICK
        hr == below \div 3600
        minute == (below % 3600) \div 60
    IN  [year |-> year, month |-> m.mon, day |-> dayofyr - m.inttemp,
         hour |-> hr, min |-> minute,
         sec |-> [s |-> IF rest.e < 0 THEN (below % 60) + 1 ELSE below % 60,
                  e |-> rest.e]]

\* 1900 + floor(temp / 365.25), temp in days since the end of 1899
YearOf(temp) ==
    LET year_ticks == (1461 * ONE_DAY) \div 4   \* 365.25 days
    IN  IF temp.t % year_ticks = 0 /\ temp.e < 0
        THEN 1900 + (temp.t \div year_ticks) - 1
        ELSE 1900 + (temp.t \div year_ticks)

\* floor(temp - ((year - 1900) * 365 + leapyrs)) of invjday_SGP4
DaysOf(temp, year) ==
    NumFloor(NumSub(temp,
        Num(((year - 1900) * 365 + ((year - 1901) \div 4)) * ONE_DAY, 0)))

invjday_SGP4(_jd, _jdfrac) ==
    LET a == IF NumLeq(Num(ONE_DAY, 0), NumAbs(_jdfrac))
             THEN [jd |-> NumAdd(_jd, NumFloor(_jdfrac)),
                   jd_frac |-> NumSub(_jdfrac, NumFloor(_jdfrac))]
             ELSE [jd |-> _jd, jd_frac |-> _jdfrac]
        del == frac_days(a)
        b == IF NumLt(Num(0, 20000), NumAbs(del))
             THEN [jd |-> NumSub(a.jd, del), jd_frac |-> NumAdd(a.jd_frac, del)]
             ELSE a
        temp == NumSub(b.jd, Num(2415019 * ONE_DAY + HALF_DAY, 0))
        year == YearOf(temp)
        days == DaysOf(temp, year)
    IN  IF NumLt(NumAdd(days, b.jd_frac), Num(ONE_DAY, 0))
        THEN days2mdhms_SGP4(year - 1,
                             NumAdd(DaysOf(temp, year - 1), b.jd_frac))
        ELSE days2mdhms_SGP4(year, NumAdd(days, b.jd_frac))

JulianDateT_summed(t) ==
    LET tmp == jday_SGP4(t.year, t.month, t.day, t.hour, t.min, t.sec)
    IN  [jd |-> NumAdd(tmp.jd, tmp.jd_frac), jd_frac |-> NumZero]

\* JulianDate::JulianDate(DateTime)
JulianDateT(t) ==
    LET tmp == jday_SGP4(t.year, t.month, t.day, t.hour, t.min, t.sec)
    IN  [jd |-> tmp.jd, jd_frac |-> tmp.jd_frac]

\* JulianDate::to_datetime
to_datetime(d) == invjday_SGP4(d.jd, d.jd_frac)

(***************************************************************************)
(* JulianDate as a state machine: one date jd, made by a constructor and   *)
(* changed by normalize, += and -=, and a second date other that it is     *)
(* subtracted from and compared with.                                      *)
(***************************************************************************)
MaxCoarseTicks == 6

MaxFineTicks == 5

MaxJdCalls == 2

\* The coarse components: quarter days, and half a day off by an amount
\* below and above the tolerance of normalize.
CoarseInputs ==
    {Num(t, 0) : t \in 0..MaxCoarseTicks}
        \cup {Num(HALF_DAY, e) : e \in {0 - 3, 0 - 1, 1, 3}}

\* The fine components: quarter days either side of zero, and zero and one
\* day off by a small amount.  The small amounts here, above and in
\* DeltaInputs never add up to nothing, as sums of doubles that near would
\* not.
FineInputs ==
    {Num(t, 0) : t \in (0 - MaxFineTicks)..MaxFineTicks}
        \cup {Num(t, e) : t \in {0, ONE_DAY}, e \in {0 - 5, 5}}

\* Day offsets handed to += and -=: a quarter of a day, a day and a
\* quarter back, a thousand days and a quarter, and an amount just above
\* the tolerance.
DeltaInputs ==
    {Num(t, 0) : t \in {0 - 5, 1, 4001}} \cup {Num(0, 7)}

MaxRangeDays == 1500

\* The dates the tests convert lie between these two: the first day of
\* 1902 and the last of 2099.
JD_START == Num(2415750 * ONE_DAY + HALF_DAY, 0)

JD_END == Num(2488068 * ONE_DAY + HALF_DAY, 0)

\* Coarse components for the calendar conversions: the days from the first
\* of 1901 on and the days up to the last of 2099.
RangeInputs ==
    {NumAdd(JD_START, Num((k - 365) * ONE_DAY, 0)) : k \in 0..MaxRangeDays}
        \cup {NumSub(JD_END, Num(k * ONE_DAY, 0)) : k \in 0..MaxRangeDays}

\* Fine components for the calendar conversions: the quarters of a day,
\* some off by a small amount, and two outside [0, 1).
DayFractions ==
    {Num(k, 0) : k \in 0..3}
        \cup {Num(0, 5), Num(1, 0 - 5), Num(3, 5), Num(ONE_DAY + 1, 0),
              Num(0 - 1, 0)}

JdInit ==
    /\ jd = JulianDate0
    /\ other = JulianDate0
    /\ jd_prev = JulianDate0
    /\ delta = NumZero
    /\ jd_ret = NumZero
    /\ jd_cmp = [lt |-> FALSE, gt |-> FALSE, le |-> TRUE, ge |-> TRUE]
    /\ jd_op = "JulianDate"
    /\ jd_calls = 0
    /\ datetime = DateTime0


(***************************************************************************)
(* The parser as a state machine: one TwoLineElement, default constructed, *)
(* on which parse is called up to MaxCalls times with lines from Inputs.   *)
(***************************************************************************)
MaxCalls == 2

\* A caller that has made no call yet.
NoCall ==
    [pc |-> "idle", mins |-> 0, own |-> 0, ret |-> "NONE",
     sv |-> NoStateVector, done |-> 0, overtaken |-> FALSE]

NoResult == [rec |-> ZeroRec, ret |-> "NONE", sv |-> NoStateVector]

Init ==
    /\ tle = ZeroTle
    /\ err = "NONE"
    /\ line_1 = <<>>
    /\ line_2 = <<>>
    /\ overload = "none"
    /\ loc = NoLoc
    /\ calls = 0
    /\ sat_rec = ZeroRec
    /\ sat_state = "none"
    /\ ret = "NONE"
    /\ last_op = "none"
    /\ mins = 0
    /\ sv = NoStateVector
    /\ tle_args = <<NullPtr, NullPtr>>
    /\ JdInit
    /\ objs = [a \in 1..2 |-> ZeroRec]
    /\ obj = [c \in {1, 2} |-> 1]
    /\ sharing = "none"
    /\ thr = [c \in {1, 2} |-> NoCall]
    /\ alone = [c \in {1, 2} |-> NoResult]
    /\ start = [c \in {1, 2} |-> ZeroRec]

Returned(r, l1, l2, which) ==
    /\ tle' = r.tle
    /\ err' = r.err
    /\ loc' = r.loc
    /\ line_1' = l1
    /\ line_2' = l2
    /\ overload' = which
    /\ calls' = calls + 1
    /\ UNCHANGED <<svars, jvars, cvars>>

\* tle.parse(const char *, const char *): both arrays hold at least
\* TLE_LINE_LEN characters, the columns the function reads unconditionally.
CallParse ==
    /\ calls < MaxCalls
    /\ \E i \in 1..Len(Inputs) :
          \E r \in {parse(tle, Inputs[i][1], Inputs[i][2])} :
             Returned(r, Inputs[i][1], Inputs[i][2], "cstr")

\* tle.parse(const std::string &, const std::string &)
CallParseString ==
    /\ calls < MaxCalls
    /\ \E i \in 1..Len(StringInputs) :
          \E r \in {parse_string(tle, StringInputs[i][1], StringInputs[i][2])} :
             Returned(r, StringInputs[i][1], StringInputs[i][2], "string")

Next == CallParse \/ CallParseString

Spec == Init /\ [][Next]_vars

(***************************************************************************)
(* The Satellite's operations.  One Satellite is made, by either           *)
(* constructor or by from_tle, and then used.                              *)
(***************************************************************************)
MaxOutOfRange == 2

\* The records handed to the constructor that takes one: zeroed but for the
\* error code, which is any int of the enumeration's range or up to
\* MaxOutOfRange below or above it.
RawRecords ==
    {[ZeroRec EXCEPT !.error = c] :
        c \in (0 - MaxOutOfRange)..(Len(Sgp4Error) - 1 + MaxOutOfRange)}

\* The line pairs handed to from_tle.
FromTleLines ==
    << <<ISS_LINE_1, ISS_LINE_2>>,
       <<TLE_2_LINE_1, TLE_2_LINE_2>>,
       <<Put(ISS_LINE_1, 69, <<"0">>), ISS_LINE_2>>,
       <<ISS_LINE_1, Put(ISS_LINE_2, 17, <<"*">>)>>,
       <<Put(ISS_LINE_1, 27, <<"*">>), ISS_LINE_2>>,
       <<Cut(ISS_LINE_1, TLE_LINE_LEN - 1), ISS_LINE_2>>,
       <<ISS_LINE_1, <<>> >> >>

Made(rec, op, args) ==
    /\ sat_rec' = rec
    /\ sat_state' = "live"
    /\ last_op' = op
    /\ tle_args' = args
    /\ UNCHANGED <<ret, mins, sv>>
    /\ UNCHANGED <<pvars, jvars, cvars>>

Construct ==
    /\ sat_state = "none"
    /\ \E e \in ElementSets : Made(Satellite_tle(e), "Satellite", tle_args)

ConstructFromRecord ==
    /\ sat_state = "none"
    /\ \E rec \in RawRecords : Made(Satellite_rec(rec), "Satellite_rec", tle_args)

\* from_tle with two arrays, or with a null pointer for the first.
FromTle ==
    /\ sat_state = "none"
    /\ \E i \in 1..Len(FromTleLines) :
       \E p1 \in {Ptr(FromTleLines[i][1]), NullPtr} :
       \E e \in ElementSets :
          Made(from_tle(p1, Ptr(FromTleLines[i][2]), e), "from_tle",
               <<p1, Ptr(FromTleLines[i][2])>>)

FromTleString ==
    /\ sat_state = "none"
    /\ \E i \in 1..Len(FromTleLines) : \E e \in ElementSets :
          Made(from_tle_string(FromTleLines[i][1], FromTleLines[i][2], e),
               "from_tle_string",
               <<Ptr(FromTleLines[i][1]), Ptr(FromTleLines[i][2])>>)

LastError ==
    /\ sat_state = "live"
    /\ ret' = last_error(sat_rec)
    /\ last_op' = "last_error"
    /\ UNCHANGED <<sat_rec, sat_state, mins, sv, tle_args>>
    /\ UNCHANGED <<pvars, jvars, cvars>>

Propagated(r, t, op) ==
    /\ sat_rec' = r.rec
    /\ ret' = r.ret
    /\ sv' = r.sv
    /\ mins' = t
    /\ last_op' = op
    /\ UNCHANGED <<sat_state, tle_args>>
    /\ UNCHANGED <<pvars, jvars, cvars>>

PropagateFromEpoch ==
    /\ sat_state = "live"
    /\ \E t \in Times : \E fired \in Fired(sat_rec, t) :
          Propagated(propagate_from_epoch(sat_rec, t, fired), t, "propagate_from_epoch")

Propagate ==
    /\ sat_state = "live"
    /\ \E t \in Times : \E fired \in Fired(sat_rec, t) :
          Propagated(propagate(sat_rec, epoch(sat_rec) + t, fired), t, "propagate")

SatNext ==
    \/ Construct
    \/ ConstructFromRecord
    \/ FromTle
    \/ FromTleString
    \/ LastError
    \/ PropagateFromEpoch
    \/ Propagate

SatSpec == Init /\ [][SatNext]_vars

\* One more call on jd: it becomes d, and what it was is remembered.
Changed(d, op, arg) ==
    /\ jd_calls < MaxJdCalls
    /\ jd_calls' = jd_calls + 1
    /\ jd' = d
    /\ jd_prev' = jd
    /\ delta' = arg
    /\ jd_op' = op
    /\ UNCHANGED <<other, jd_ret, jd_cmp, datetime>>
    /\ UNCHANGED <<pvars, svars, cvars>>

JdConstruct ==
    /\ jd_calls = 0
    /\ \E c \in CoarseInputs : \E f \in FineInputs :
          Changed(JulianDate2(c, f), "JulianDate", f)

JdConstructWhole ==
    /\ jd_calls = 0
    /\ \E c \in CoarseInputs : Changed(JulianDate1(c), "JulianDate", NumZero)

JdNormalize ==
    /\ jd_calls > 0
    /\ Changed(normalize(jd), "normalize", NumZero)

JdPlusAssign ==
    /\ jd_calls > 0
    /\ \E d \in DeltaInputs : Changed(PlusAssign(jd, d), "+=", d)

JdMinusAssign ==
    /\ jd_calls > 0
    /\ \E d \in DeltaInputs : Changed(MinusAssign(jd, d), "-=", d)

\* other = jd: the date just made is kept, to be compared with what jd
\* becomes.
JdKeep ==
    /\ jd_calls = 1
    /\ other # jd
    /\ other' = jd
    /\ jd_op' = "="
    /\ UNCHANGED <<jd, jd_prev, delta, jd_ret, jd_cmp, jd_calls, datetime>>
    /\ UNCHANGED <<pvars, svars, cvars>>

\* jd - other, jd < other, jd > other, jd <= other, jd >= other
JdCompare ==
    /\ jd_calls > 0
    /\ jd_op # "compare"
    /\ jd_ret' = Minus(jd, other)
    /\ jd_cmp' = [lt |-> Less(jd, other), gt |-> Greater(jd, other),
                  le |-> LessEq(jd, other), ge |-> GreaterEq(jd, other)]
    /\ jd_op' = "compare"
    /\ UNCHANGED <<jd, other, jd_prev, delta, jd_calls, datetime>>
    /\ UNCHANGED <<pvars, svars, cvars>>

JdNext ==
    \/ JdConstruct
    \/ JdConstructWhole
    \/ JdNormalize
    \/ JdPlusAssign
    \/ JdMinusAssign
    \/ JdKeep
    \/ JdCompare

JdSpec == Init /\ [][JdNext]_vars

(***************************************************************************)
(* The calendar conversions as a state machine: a date is made from a      *)
(* coarse and a fine component, converted to a DateTime, and a date is     *)
(* made from that DateTime.                                                *)
(***************************************************************************)
CalConstruct ==
    /\ jd_calls = 0
    /\ \E c \in RangeInputs : \E f \in DayFractions :
          Changed(JulianDate2(c, f), "JulianDate", f)

CalToDatetime ==
    /\ jd_calls > 0
    /\ jd_op # "to_datetime"
    /\ datetime' = to_datetime(jd)
    /\ jd_op' = "to_datetime"
    /\ UNCHANGED <<jd, other, jd_prev, delta, jd_ret, jd_cmp, jd_calls>>
    /\ UNCHANGED <<pvars, svars, cvars>>

CalFromDatetime ==
    /\ jd_op = "to_datetime"
    /\ Changed(JulianDateT(datetime), "JulianDate(DateTime)", NumZero)

CalNext ==
    \/ CalConstruct
    \/ CalToDatetime
    \/ CalFromDatetime

CalSpec == Init /\ [][CalNext]_vars

(***************************************************************************)
(* Two callers, each making propagate_from_epoch calls of its own, on one  *)
(* Satellite or on two.  objs is the storage of the Satellite objects: a   *)
(* Satellite holds its record by value, so objs[a] is the record of the    *)
(* Satellite stored at a.  A call is taken statement by statement, and the *)
(* statements of the two callers interleave.                               *)
(***************************************************************************)
Callers == {1, 2}

TheOther(c) == 3 - c

MaxRounds == 2

\* Element sets that may show one degeneracy at the epoch and another later.
ParElements ==
    {[epoch |-> MINS_PER_DAY, init |-> held,
      prop |-> [t \in Times |-> IF t = 0 THEN first ELSE later]] :
        held \in {{}, {"MEAN_MOTION"}},
        first \in {{}, {"SEMI_LATUS_RECTUM"}, {"RADIUS"}},
        later \in {{}, {"SEMI_LATUS_RECTUM"}, {"RADIUS"}}}

Satellite_copy_by_reference(m, from, to) == [objs |-> m, at |-> from]

\* Satellite b = a: the copy is an object of its own, at to, and its sat_rec
\* member is initialized with the value of a's.
Satellite_copy(m, from, to) == [objs |-> [m EXCEPT ![to] = m[from]], at |-> to]

\* The second Satellite: the first one again, a copy of it, or one made from
\* the elements e2.
Second(m, how, e2) ==
    CASE how = "same" -> [objs |-> m, at |-> 1]
      [] how = "copy" -> Satellite_copy(m, 1, 2)
      [] how = "other" -> [objs |-> [m EXCEPT ![2] = Satellite_tle(e2)], at |-> 2]

ParSetup ==
    /\ sharing = "none"
    /\ \E e \in ParElements : \E how \in {"same", "copy", "other"} :
       \E e2 \in {x \in ParElements : x.init = {} /\ x.prop[0] = {}} :
          LET b == Second([objs EXCEPT ![1] = Satellite_tle(e)], how, e2)
          IN  /\ how # "other" => e2.prop = [t \in Times |-> {}]
              /\ objs' = b.objs
              /\ obj' = [c \in Callers |-> IF c = 1 THEN 1 ELSE b.at]
              /\ sharing' = how
              /\ start' = [c \in Callers |-> b.objs[IF c = 1 THEN 1 ELSE b.at]]
              /\ alone' = [c \in Callers |->
                             [NoResult EXCEPT !.rec = b.objs[IF c = 1 THEN 1 ELSE b.at]]]
    /\ UNCHANGED thr
    /\ UNCHANGED <<pvars, svars, jvars>>

\* propagate_from_epoch, first statement: sv.epoch = epoch() + mins_from_epoch
ParCall(c) ==
    /\ sharing # "none"
    /\ thr[c].pc = "idle"
    /\ thr[c].done < MaxRounds
    /\ \E t \in Times :
          thr' = [thr EXCEPT ![c] =
                    [@ EXCEPT !.pc = "sgp4", !.mins = t, !.overtaken = FALSE,
                              !.sv = [epoch |-> epoch(objs[obj[c]]) + t,
                                      written |-> FALSE]]]
    /\ UNCHANGED <<objs, obj, sharing, alone, start>>
    /\ UNCHANGED <<pvars, svars, jvars>>

\* second statement: sgp4::sgp4(sat_rec, mins_from_epoch, position, velocity).
\* alone[c] is what the calls of c give when made one after the other on a
\* record no one else touches.
ParSgp4(c) ==
    /\ thr[c].pc = "sgp4"
    /\ \E fired \in Fired(objs[obj[c]], thr[c].mins) :
          /\ objs' = [objs EXCEPT ![obj[c]] = sgp4(@, thr[c].mins, fired)]
          /\ thr' = [d \in Callers |->
                       IF d = c
                       THEN [thr[c] EXCEPT !.pc = "return", !.own = fired.code,
                                           !.sv.written = fired.writes]
                       ELSE [thr[d] EXCEPT !.overtaken =
                                @ \/ (obj[d] = obj[c] /\ thr[d].pc = "return")]]
          /\ alone' = [alone EXCEPT ![c] =
                         propagate_from_epoch(@.rec, thr[c].mins, fired)]
    /\ UNCHANGED <<obj, sharing, start>>
    /\ UNCHANGED <<pvars, svars, jvars>>

ReturnLastError_of_own_call(rec, own) ==
    IF own # 0 THEN convert_sgp4_error_code(own) ELSE last_error(rec)

\* third statement: return last_error()
ReturnLastError(rec, own) == last_error(rec)

ParReturn(c) ==
    /\ thr[c].pc = "return"
    /\ thr' = [thr EXCEPT ![c] =
                 [@ EXCEPT !.pc = "idle", !.done = @ + 1,
                           !.ret = ReturnLastError(objs[obj[c]], thr[c].own)]]
    /\ UNCHANGED <<objs, obj, sharing, alone, start>>
    /\ UNCHANGED <<pvars, svars, jvars>>

ParNext ==
    \/ ParSetup
    \/ \E c \in Callers : ParCall(c)
    \/ \E c \in Callers : ParSgp4(c)
    \/ \E c \in Callers : ParReturn(c)

ParSpec == Init /\ [][ParNext]_vars

(***************************************************************************)
(* Properties of the parser.  They are stated over the lines of the last   *)
(* call, the TwoLineElement it left behind and the values of its locals,   *)
(* with the columns and limits written out afresh.                         *)
(***************************************************************************)
Called == overload # "none"

\* Every mandatory column of both lines exists and holds a space.
AllSpaces(l1, l2) ==
    /\ \A c \in {2, 9, 18, 33, 44, 53, 62, 64} : c <= Len(l1) /\ l1[c] = " "
    /\ \A c \in {2, 8, 17, 26, 34, 43, 52} : c <= Len(l2) /\ l2[c] = " "

\* Both lines scanned with the full field count.
FullCount == loc.l1_scanned = 16 /\ loc.l2_scanned = 10

\* How often character c occurs among the first 68 characters of line.
Count68(line, c) == Cardinality({i \in 1..68 : line[i] = c})

\* Sum of the digits plus the number of minus signs, over the first 68
\* characters, modulo 10.
DigitSum68(line) ==
    (Count68(line, "1") + 2 * Count68(line, "2") + 3 * Count68(line, "3")
     + 4 * Count68(line, "4") + 5 * Count68(line, "5") + 6 * Count68(line, "6")
     + 7 * Count68(line, "7") + 8 * Count68(line, "8") + 9 * Count68(line, "9")
     + Count68(line, "-")) % 10

\* The checksum digit of column 69 is absent or is not the line's sum.
ChecksumWrong(line) ==
    Len(line) >= 69 /\ (~isdigit(line[69]) \/ DigitVal(line[69]) # DigitSum68(line))

InRange(x, lo, hi) == DecGeq(x, lo) /\ DecLeq(x, hi)

\* Every value check of the claim C4 passes (meaningful once FullCount).
ValuesInRange ==
    /\ loc.o1["line1_num"] = 1 /\ loc.o2["line2_num"] = 2
    /\ tle.classification \in {"U", "C", "S"}
    /\ tle.launch_year \in 0..99 /\ tle.epoch_year \in 0..99
    /\ InRange(tle.epoch_day_of_year, 1, 366)
    /\ \A e \in loc.n_ddot_exp \cup loc.b_star_exp : 0 - 15 < e /\ e < 10
    /\ tle.ephemeris_type = 0
    /\ tle.element_set_number \in 0..9999
    /\ tle.catalog_number = loc.o2["catlog_num_line2"]
    /\ InRange(tle.inclination, 0, 180)
    /\ InRange(tle.raan, 0, 360)
    /\ InRange(tle.arg_of_perigee, 0, 360)
    /\ InRange(tle.mean_anomaly, 0, 360)

\* C1: for both overloads the reported error class implies that every
\* earlier check class passed: INVALID_FORMAT implies all mandatory columns
\* hold a space, INVALID_VALUE also that both lines scanned with the full
\* field count, CHECKSUM_MISMATCH also that every value check passed; and a
\* pair with a missing mandatory space and a bad checksum yields
\* SHOULD_BE_SPACE.
C1_ErrorOrder ==
    Called =>
      /\ err = "INVALID_FORMAT" => AllSpaces(line_1, line_2)
      /\ err = "INVALID_VALUE" => AllSpaces(line_1, line_2) /\ FullCount
      /\ err = "CHECKSUM_MISMATCH" =>
            AllSpaces(line_1, line_2) /\ FullCount /\ ValuesInRange
      /\ (~AllSpaces(line_1, line_2)
          /\ (ChecksumWrong(line_1) \/ ChecksumWrong(line_2)))
            => err = "SHOULD_BE_SPACE"

\* C2: the const char * overload returns SHOULD_BE_SPACE if and only if
\* some mandatory column of line 1 or line 2 is not a space, and in that
\* case it has written no field of the TwoLineElement.
C2_SpaceCheckFirst ==
    [][overload' = "cstr" =>
         /\ err' = "SHOULD_BE_SPACE" <=> ~AllSpaces(line_1', line_2')
         /\ err' = "SHOULD_BE_SPACE" => tle' = tle]_vars

\* A second call returned SHOULD_BE_SPACE, for column 52 of line 2, on a
\* TwoLineElement that held the fields of an earlier call.
C2_Witness ==
    /\ overload = "cstr" /\ calls = 2 /\ err = "SHOULD_BE_SPACE"
    /\ line_2[52] # " "
    /\ tle.catalog_number # <<>> /\ tle.element_set_number # 0

\* C3: the computed checksum of a line is the sum of its digits plus the
\* number of its minus signs over the first 68 characters, modulo 10; when
\* the space, format and value checks pass, parse returns CHECKSUM_MISMATCH
\* if and only if that sum differs from the decoded checksum digit on line
\* 1 or on line 2, and NONE otherwise.
C3_Checksum ==
    (Called /\ AllSpaces(line_1, line_2) /\ FullCount /\ ValuesInRange) =>
      /\ err \in {"NONE", "CHECKSUM_MISMATCH"}
      /\ err = "CHECKSUM_MISMATCH" <=>
            \/ DigitSum68(line_1) # tle.line_1_checksum
            \/ DigitSum68(line_2) # tle.line_2_checksum

\* A mismatch on line 2 alone, and line 1 holding minus signs.
C3_Witness ==
    /\ Called /\ err = "CHECKSUM_MISMATCH"
    /\ Count68(line_1, "-") > 0
    /\ DigitSum68(line_1) = tle.line_1_checksum
    /\ DigitSum68(line_2) # tle.line_2_checksum

\* C4: when the space and format checks pass, parse returns INVALID_VALUE
\* if and only if one of the value checks fails (line numbers 1 and 2,
\* classification U, C or S, years below 100, day of year in [1, 366],
\* exponents strictly between -15 and 10, ephemeris type 0, element set
\* number below 10000, equal catalog numbers, inclination in [0, 180],
\* the other angles in [0, 360]).
C4_ValueCheck ==
    (Called /\ AllSpaces(line_1, line_2) /\ FullCount) =>
        (err = "INVALID_VALUE" <=> ~ValuesInRange)

\* INVALID_VALUE for no reason but the catalog numbers of the two lines.
C4_Witness ==
    /\ Called /\ err = "INVALID_VALUE" /\ FullCount
    /\ tle.catalog_number # loc.o2["catlog_num_line2"]
    /\ tle.ephemeris_type = 0 /\ tle.classification = "U"

\* The value that columns a..b of line hold when read alone by a conversion
\* of kind k as wide as the columns: the set of that one value, or the empty
\* set when the columns hold no such value.
Sent(line, a, b, k) ==
    {c.val : c \in {x \in {Conv(SubSeq(line, a, b), 1, [k |-> k, w |-> b - a + 1])} :
                       x.st = "run"}}

\* A mantissa in columns a..b and its exponent in the two columns after,
\* the decimal point implied before the mantissa's five digits unless
\* column a holds one.
SentPower(line, a, b) ==
    {DecShift(m, IF line[a] = "." THEN e ELSE e - 5) :
        m \in Sent(line, a, b, "lf"), e \in Sent(line, b + 1, b + 2, "d")}

\* Every decoded field but the two checksums equals the value sent in its
\* columns.
FieldsAsSent ==
    /\ tle.catalog_number \in Sent(line_1, 3, 7, "s")
    /\ tle.classification = line_1[8]
    /\ tle.launch_year \in Sent(line_1, 10, 11, "u")
    /\ tle.launch_number \in Sent(line_1, 12, 14, "u")
    /\ tle.launch_piece \in Sent(line_1, 15, 17, "s")
    /\ tle.epoch_year \in Sent(line_1, 19, 20, "u")
    /\ tle.epoch_day_of_year \in Sent(line_1, 21, 32, "lf")
    /\ tle.n_dot \in Sent(line_1, 34, 43, "lf")
    /\ tle.n_ddot \in SentPower(line_1, 45, 50)
    /\ tle.b_star \in SentPower(line_1, 54, 59)
    /\ tle.ephemeris_type \in Sent(line_1, 63, 63, "u")
    /\ tle.element_set_number \in Sent(line_1, 65, 68, "u")
    /\ tle.inclination \in Sent(line_2, 9, 16, "lf")
    /\ tle.raan \in Sent(line_2, 18, 25, "lf")
    /\ tle.eccentricity \in {EccFromInt(v) : v \in Sent(line_2, 27, 33, "u")}
    /\ tle.arg_of_perigee \in Sent(line_2, 35, 42, "lf")
    /\ tle.mean_anomaly \in Sent(line_2, 44, 51, "lf")
    /\ tle.mean_motion \in Sent(line_2, 53, 63, "lf")
    /\ tle.revolution_number \in {ULong(v) : v \in Sent(line_2, 64, 68, "u")}

ChecksumsAsSent ==
    /\ tle.line_1_checksum \in Sent(line_1, 69, 69, "u")
    /\ tle.line_2_checksum \in Sent(line_2, 69, 69, "u")

\* C5: whenever parse returns NONE, every decoded field equals the value
\* sent in that field's columns, and the decoded record does not depend on
\* what the TwoLineElement held before the call.
C5_DecodedAsSent ==
    (Called /\ err = "NONE") =>
        /\ FieldsAsSent
        /\ ChecksumsAsSent
        /\ tle = parse(ZeroTle, line_1, line_2).tle

\* C7: whenever parse returns CHECKSUM_MISMATCH the checksum is the only
\* issue: every decoded field other than the two checksums equals the value
\* sent in its columns.
C7_OnlyChecksum ==
    (Called /\ err = "CHECKSUM_MISMATCH") => FieldsAsSent

\* The field in columns a..68 of line lacks leading zeroes and the scan
\* swallowed the checksum digit into it: the conversion of the field began
\* at column k, the first after the field's leading blanks, and from there
\* to column 69 the line holds digits only.
Swallowed(line, from, field, a) ==
    /\ field \in DOMAIN from
    /\ from[field] \in (a + 1)..68
    /\ \A i \in a..(from[field] - 1) : line[i] = " "
    /\ \A i \in from[field]..69 : isdigit(line[i])

\* The scan happened (parse got past the space check).
Scanned == Called /\ loc.stage \in {"format", "values", "checksum"}

\* The correction of line 1, and of line 2, was applied.
Fixed1 == loc.l1_scanned = loc.l1_ret + 1
Fixed2 == loc.l2_scanned = loc.l2_ret + 1

\* C6: when the element set number (columns 65-68 of line 1) lacks leading
\* zeroes so that the scan swallows the checksum digit of column 69, the
\* decoded element_set_number is the value of columns 65-68 alone and
\* line_1_checksum the digit of column 69; likewise for the revolution
\* number (columns 64-68 of line 2) and line_2_checksum.  The correction is
\* applied exactly when the scan obtained every field but the checksum (15
\* on line 1, 9 on line 2), its cursor reached at least 69 and column 65 of
\* line 1 (64 of line 2) is blank.
C6_SwallowedChecksum ==
    Scanned =>
      /\ Swallowed(line_1, loc.from1, "element_set_number", 65) =>
            /\ tle.element_set_number \in Sent(line_1, 65, 68, "u")
            /\ tle.line_1_checksum = DigitVal(line_1[69])
      /\ Swallowed(line_2, loc.from2, "revolution_number", 64) =>
            /\ tle.revolution_number \in {ULong(v) : v \in Sent(line_2, 64, 68, "u")}
            /\ tle.line_2_checksum = DigitVal(line_2[69])
      /\ Fixed1 <=> /\ loc.l1_ret = 15
                    /\ loc.o1["pre_checksum"] >= 69
                    /\ line_1[65] = " "
      /\ Fixed2 <=> /\ loc.l2_ret = 9
                    /\ loc.o2["pre_checksum"] >= 69
                    /\ line_2[64] = " "
      /\ ~Fixed1 /\ "element_set_number" \in DOMAIN loc.o1 =>
            tle.element_set_number = loc.o1["element_set_number"]
      /\ ~Fixed2 /\ "revolution_number" \in DOMAIN loc.o2 =>
            tle.revolution_number = ULong(loc.o2["revolution_number"])

\* Both lines end in a number without leading zeroes, both corrections were
\* applied and parse returned NONE.
C6_Witness ==
    /\ Scanned /\ err = "NONE" /\ Fixed1 /\ Fixed2
    /\ Swallowed(line_1, loc.from1, "element_set_number", 65)
    /\ Swallowed(line_2, loc.from2, "revolution_number", 64)
    /\ tle.element_set_number = 12

(***************************************************************************)
(* Properties of the Satellite.  The names of the codes and the            *)
(* initializer's priority order are written out afresh.                    *)
(***************************************************************************)
PropOps == {"propagate_from_epoch", "propagate"}

CodeName(e) ==
    CASE e = 0 -> "NONE"
      [] e = 1 -> "MEAN_ELEMENTS"
      [] e = 2 -> "MEAN_MOTION"
      [] e = 3 -> "PERT_ELEMENTS"
      [] e = 4 -> "SEMI_LATUS_RECTUM"
      [] e = 5 -> "EPOCH_ELEMENTS_SUB_ORBITAL"
      [] e = 6 -> "DECAYED"
      [] e = 7 -> "INVALID_TLE"
      [] OTHER -> "UNKNOWN"

\* C8: a propagation call returns the name of the code the record holds when
\* the call is over, NONE exactly when that code is 0; last_error() leaves
\* the record as it was and returns the name of its code, so right after a
\* propagation call it returns what that call returned.
C8_ReturnsLatched ==
    [][/\ last_op' \in PropOps =>
            /\ ret' = CodeName(sat_rec'.error)
            /\ ret' = "NONE" <=> sat_rec'.error = 0
       /\ last_op' = "last_error" =>
            /\ sat_rec' = sat_rec
            /\ ret' = CodeName(sat_rec.error)
       /\ (last_op \in PropOps /\ last_op' = "last_error") => ret' = ret]_vars

\* A propagation call has just latched DECAYED into a record that held
\* no error and returned it.
C8_Witness ==
    /\ last_op = "propagate"
    /\ sat_rec.init
    /\ InitCode(sat_rec.els.init, 1) = 0
    /\ sat_rec.els.prop[mins] = {"RADIUS"}
    /\ sat_rec.error = 6
    /\ ret = "DECAYED"

Lifecycle(rec) ==
    IF rec.error # 0 THEN "ERROR"
    ELSE IF rec.init THEN "INITIALIZED"
    ELSE "UNINITIALIZED"

PriorityName(held) ==
    IF "MEAN_ELEMENTS" \in held THEN "MEAN_ELEMENTS"
    ELSE IF "MEAN_MOTION" \in held THEN "MEAN_MOTION"
    ELSE IF "PERT_ELEMENTS" \in held THEN "PERT_ELEMENTS"
    ELSE IF "SEMI_LATUS_RECTUM" \in held THEN "SEMI_LATUS_RECTUM"
    ELSE "NONE"

ConditionName(condition) ==
    CASE condition = "ECCENTRICITY" -> "EPOCH_ELEMENTS_SUB_ORBITAL"
      [] condition = "SEMI_LATUS_RECTUM" -> "SEMI_LATUS_RECTUM"
      [] condition = "RADIUS" -> "DECAYED"

\* The degeneracies the elements of the record show at the elapsed time of
\* the last propagation call.
Degenerate == sat_rec.els.prop[mins]

FromTleOps == {"from_tle", "from_tle_string"}

\* The arguments of the from_tle call: a null pointer or a line shorter than
\* 69 characters among them.
NullOrShort ==
    \E i \in 1..2 : tle_args[i].null \/ Len(tle_args[i].str) < 69

\* C12: a Satellite returned by from_tle for a null pointer or a line shorter
\* than 69 characters holds INVALID_TLE in a record that is otherwise zeroed
\* and was never initialized; for two lines of 69 or more characters the
\* record is the one the text reader and the initializer filled.
C12_FromTleShort ==
    (last_op \in FromTleOps) =>
        /\ NullOrShort =>
              /\ last_error(sat_rec) = "INVALID_TLE"
              /\ sat_rec = [error |-> 7, init |-> FALSE, jdsatepoch |-> 0,
                            els |-> ZeroElements]
        /\ ~NullOrShort =>
              /\ sat_rec.init
              /\ sat_rec.jdsatepoch = sat_rec.els.epoch

\* from_tle was given a first line of 68 characters.
C12_Witness ==
    /\ last_op = "from_tle"
    /\ ~tle_args[1].null
    /\ Len(tle_args[1].str) = 68
    /\ sat_rec.error = 7
    /\ ~sat_rec.init

\* The text handed to from_tle is malformed: a mandatory space is missing,
\* a checksum digit is not the line's checksum, or the parser finds a field
\* it cannot read.
Malformed(l1, l2) ==
    \/ ~AllSpaces(l1, l2)
    \/ DigitSum68(l1) # DigitVal(l1[69])
    \/ DigitSum68(l2) # DigitVal(l2[69])
    \/ parse(ZeroTle, l1, l2).err = "INVALID_FORMAT"

\* C13: after from_tle on malformed text of sufficient length, last_error()
\* is INVALID_TLE.
C13_MalformedIsInvalid ==
    (/\ last_op \in FromTleOps
     /\ ~NullOrShort
     /\ Malformed(tle_args[1].str, tle_args[2].str))
        => last_error(sat_rec) = "INVALID_TLE"

\* C14: what last_error() returns is a member of the enumeration: for the
\* codes 0 to 7 the member at that place, for a negative code and for a
\* code of 8 or more UNKNOWN.
C14_TotalMapping ==
    (last_op = "last_error") =>
        /\ ret \in {"NONE", "MEAN_ELEMENTS", "MEAN_MOTION", "PERT_ELEMENTS",
                    "SEMI_LATUS_RECTUM", "EPOCH_ELEMENTS_SUB_ORBITAL",
                    "DECAYED", "INVALID_TLE", "UNKNOWN"}
        /\ sat_rec.error \in 0..7 =>
              ret = << "NONE", "MEAN_ELEMENTS", "MEAN_MOTION", "PERT_ELEMENTS",
                       "SEMI_LATUS_RECTUM", "EPOCH_ELEMENTS_SUB_ORBITAL",
                       "DECAYED", "INVALID_TLE" >>[sat_rec.error + 1]
        /\ (sat_rec.error < 0 \/ sat_rec.error >= 8) => ret = "UNKNOWN"

\* last_error() was read on a record holding a negative code.
C14_Witness ==
    /\ last_op = "last_error"
    /\ sat_rec.error < 0
    /\ ret = "UNKNOWN"

(***************************************************************************)
(* Properties of JulianDate.  A day is four quarter days, written out      *)
(* here, and the small amounts count for nothing but their sign.           *)
(***************************************************************************)
\* x - 0.5 is a whole number of days
HalfInteger(x) == x.e = 0 /\ x.t % 4 = 2

\* 0 <= x < 1
InUnitInterval(x) ==
    /\ x.t > 0 \/ (x.t = 0 /\ x.e >= 0)
    /\ x.t < 4

\* C15: after normalize() the coarse component is a half-integer day and
\* the fine component lies in [0, 1).
C15_NormalizedForm ==
    jd_op = "normalize" => HalfInteger(jd.jd) /\ InUnitInterval(jd.jd_frac)

C17_OffsetIntoFine ==
    [][/\ jd_op' = "+=" =>
            /\ jd'.jd = jd.jd
            /\ jd'.jd_frac.t = jd.jd_frac.t + delta'.t
            /\ jd'.jd_frac.e = jd.jd_frac.e + delta'.e
       /\ jd_op' = "-=" =>
            /\ jd'.jd = jd.jd
            /\ jd'.jd_frac.t = jd.jd_frac.t - delta'.t
            /\ jd'.jd_frac.e = jd.jd_frac.e - delta'.e]_vars

\* A thousand days were added: the coarse component is what it was and the
\* fine component is far outside [0, 1).
C17_Witness ==
    /\ jd_op = "+="
    /\ delta.t = 4001
    /\ jd.jd = jd_prev.jd
    /\ jd.jd_frac.t > 4 * 999

\* x and y differ by no more than 1e-8 days
Close(x, y) ==
    /\ x.t = y.t
    /\ x.e - y.e <= 20000
    /\ y.e - x.e <= 20000

Instant(d) == <<d.jd.t + d.jd_frac.t, d.jd.e + d.jd_frac.e>>

InSupportedYears(d) ==
    /\ d.jd.t >= 4 * 2415385 + 2
    /\ d.jd.t + d.jd_frac.t < 4 * 2488069 + 2

C21_PropagateIsFromEpoch ==
    [][last_op' = "propagate" =>
          \E fired \in Fired(sat_rec, mins') :
             LET r == propagate_from_epoch(sat_rec, mins', fired)
             IN  /\ ret' = r.ret
                 /\ sv'.written = r.sv.written
                 /\ sat_rec' = r.rec]_vars

\* propagate was called for a date after an epoch that is not zero, and
\* returned an error the call itself latched.
C21_Witness ==
    /\ last_op = "propagate"
    /\ sat_rec.jdsatepoch = MINS_PER_DAY
    /\ mins = MaxMinutes
    /\ sv.epoch = MINS_PER_DAY + MaxMinutes
    /\ ret = "DECAYED"
    /\ sv.written

\* 0 <= x <= 1, for an eccentricity as EccFromInt leaves it
EccInRange(x) ==
    /\ x.wrap = 0
    /\ ~x.neg
    /\ x.mant = <<>> \/ x.exp <= 0 \/ (x.exp = 1 /\ x.mant = <<1>>)

\* C25: when parse returns NONE every decoded field lies in the range the
\* TwoLineElement documents for it.
C25_DocumentedRanges ==
    (Called /\ err = "NONE") =>
      /\ InRange(tle.inclination, 0, 180)
      /\ InRange(tle.raan, 0, 360)
      /\ InRange(tle.arg_of_perigee, 0, 360)
      /\ InRange(tle.mean_anomaly, 0, 360)
      /\ EccInRange(tle.eccentricity)
      /\ ~tle.mean_motion.neg /\ tle.mean_motion.mant # <<>>
      /\ tle.revolution_number.w = "" /\ tle.revolution_number.v \in 0..99999
      /\ tle.classification \in {"U", "C", "S"}
      /\ tle.line_1_checksum \in 0..9
      /\ tle.line_2_checksum \in 0..9

\* 0.39008e-3
BStarOfTheTests == MkDec(FALSE, <<>>, <<0, 0, 0, 3, 9, 0, 0, 8>>)

\* C26: once parse has post-processed, n_ddot is the mantissa of columns
\* 45-50 of line 1 times ten to the exponent of columns 51-52, and b_star
\* that of columns 54-59 and 60-61, the exponent taken as sent when the
\* first column of the mantissa holds a decimal point and less 5 when it
\* does not; the eccentricity is the integer of columns 27-33 of line 2
\* times 1e-7; and both notations of the tests' b-star decode to 0.39008e-3.
C26_MantissaExponent ==
    (Called /\ loc.stage \in {"values", "checksum"}) =>
      /\ tle.n_ddot \in SentPower(line_1, 45, 50)
      /\ tle.b_star \in SentPower(line_1, 54, 59)
      /\ (\A i \in 27..33 : isdigit(line_2[i])) =>
            tle.eccentricity =
               DecShift(MkDec(FALSE, [i \in 1..7 |-> DigitVal(line_2[26 + i])], <<>>),
                        0 - 7)
      /\ (SubSeq(line_1, 54, 61) \in {SubSeq(ISS_LINE_1, 54, 61),
                                      SubSeq(TLE_2_LINE_1, 54, 61)})
            => tle.b_star = BStarOfTheTests

\* The notation without a decimal point was decoded, the exponent less 5.
C26_Witness ==
    /\ Called /\ err = "NONE"
    /\ line_1[54] = " "
    /\ loc.o1["b_star_exp"] = 0 - 3
    /\ loc.b_star_exp = {0 - 8}
    /\ tle.b_star = BStarOfTheTests
    /\ tle.eccentricity = MkDec(FALSE, <<>>, <<0, 0, 0, 4, 0, 4, 7>>)

\* C30: the error code and the decoded record of a parse call are those of
\* the same call on the first 69 characters of each line; what follows
\* column 69 (nothing, a line break, digits) makes no difference.
C30_First69Only ==
    [][(overload' # "none" /\ Len(line_1') >= TLE_LINE_LEN /\ Len(line_2') >= TLE_LINE_LEN) =>
          LET r == parse(tle, Cut(line_1', TLE_LINE_LEN), Cut(line_2', TLE_LINE_LEN))
          IN  err' = r.err /\ tle' = r.tle]_vars

C29_EpochFixed ==
    [][/\ last_op' \in {"propagate", "propagate_from_epoch", "last_error"} =>
             epoch(sat_rec') = epoch(sat_rec)
       /\ last_op' \in {"propagate", "propagate_from_epoch"} =>
             sv'.epoch = epoch(sat_rec') + mins'
       /\ last_op' = "last_error" => sat_rec' = sat_rec]_vars

\* A propagation call after the epoch returned an error on an initialized
\* Satellite whose epoch is not zero, and the date of the result is that
\* epoch plus the elapsed time.
C29_Witness ==
    /\ last_op = "propagate_from_epoch"
    /\ epoch(sat_rec) = MINS_PER_DAY
    /\ mins = MaxMinutes
    /\ sat_rec.init
    /\ ret = "SEMI_LATUS_RECTUM"
    /\ sv.epoch = MINS_PER_DAY + MaxMinutes

\* C22: two Satellites, the second a copy of the first taken before any
\* call or one made on its own, share no state: a statement of one caller's
\* call leaves the other Satellite's record, last_error(), epoch() and
\* results as they were, and however the two callers' statements
\* interleave, each Satellite's record and each call's results are those of
\* the same calls made one after the other on a record no one else touches.
C22_NoSharedState ==
    [][sharing' \in {"copy", "other"} =>
         \A c \in Callers :
            /\ thr'[c] # thr[c] =>
                  /\ objs'[obj'[TheOther(c)]] = objs[obj'[TheOther(c)]]
                  /\ thr'[TheOther(c)] = thr[TheOther(c)]
            /\ objs'[obj'[c]] = alone'[c].rec
            /\ last_error(objs'[obj'[c]]) = last_error(alone'[c].rec)
            /\ epoch(objs'[obj'[c]]) = epoch(start'[c])
            /\ (thr'[c].pc = "idle" /\ thr'[c].done > 0) =>
                  /\ thr'[c].ret = alone'[c].ret
                  /\ thr'[c].sv = alone'[c].sv]_vars

\* The second Satellite is a copy of the first and each caller has made
\* one call, at different times: the first caller's call latched DECAYED in
\* its record, the second caller's returned the code the initializer had
\* latched, and each record holds its own code.
C22_Witness ==
    /\ sharing = "copy"
    /\ thr[1].done = 1 /\ thr[1].ret = "DECAYED"
    /\ thr[2].done = 1 /\ thr[2].pc = "idle" /\ thr[2].ret = "MEAN_MOTION"
    /\ last_error(objs[obj[1]]) = "DECAYED"
    /\ last_error(objs[obj[2]]) = "MEAN_MOTION"
    /\ thr[2].mins # thr[1].mins

\* The codes the first call of caller c on a Satellite can return when the
\* first calls of the two callers run one after the other, in either order.
SerialFirst(c) ==
    {propagate_from_epoch(start[c], thr[c].mins, f).ret :
        f \in Fired(start[c], thr[c].mins)}

SerialSecond(c) ==
    UNION {{propagate_from_epoch(r, thr[c].mins, f).ret : f \in Fired(r, thr[c].mins)} :
             r \in {propagate_from_epoch(start[c], thr[TheOther(c)].mins, g).rec :
                      g \in Fired(start[c], thr[TheOther(c)].mins)}}

Began(c) == thr[c].pc # "idle" \/ thr[c].done > 0

InFirstCall(c) == thr[c].done = 0 \/ (thr[c].done = 1 /\ thr[c].pc = "idle")

NotSerial(c) ==
    /\ sharing = "same"
    /\ thr[c].done = 1 /\ thr[c].pc = "idle"
    /\ Began(TheOther(c)) /\ InFirstCall(TheOther(c))
    /\ thr[c].ret \notin SerialFirst(c) \cup SerialSecond(c)

\* C23: two callers on one Satellite.  A call returns the code latched in
\* the shared record at the moment of its return statement, whoever latched
\* it; a first call returns a code that it returns in no serial order of the
\* two first calls only when the other caller's sgp4 ran on the record
\* between this call's sgp4 and its return, and a call that was not
\* overtaken returns what propagate_from_epoch gives on the record as its
\* sgp4 found it.
C23_UnsafeOnSharedRecord ==
    [][sharing' = "same" =>
         \A c \in Callers :
            /\ (thr[c].pc = "return" /\ thr'[c].pc = "idle") =>
                  /\ thr'[c].ret = last_error(objs[obj[c]])
                  /\ ~thr[c].overtaken =>
                        thr'[c].ret = convert_sgp4_error_code(
                           IF thr[c].own # 0 THEN thr[c].own ELSE objs[obj[c]].error)
            /\ NotSerial(c)' => thr'[c].overtaken]_vars

\* Both callers have made their first call on the one Satellite, and the
\* first caller's call, which detected a semi-latus-rectum that is not
\* positive, returned DECAYED, latched by the second caller's: a code it
\* returns in neither serial order.
C23_Witness ==
    /\ NotSerial(1)
    /\ thr[2].done = 1 /\ thr[2].pc = "idle"
    /\ thr[1].own = ErrorCode("SEMI_LATUS_RECTUM")
    /\ thr[1].ret = "DECAYED"
    /\ thr[2].ret = "DECAYED"
    /\ SerialFirst(1) \cup SerialSecond(1) = {"SEMI_LATUS_RECTUM"}
====
